---- MODULE Spec2Model ----
(***************************************************************************)
(* A model of napalm_dell.dell.DNOS6Driver: the driver object's fields,    *)
(* the transport session it holds, and one action per public call.  Text   *)
(* is modelled at character level: a Python str is a sequence of lines     *)
(* (the pieces between "\n"), and a line is a sequence of one-character    *)
(* strings, so that substring tests, slicing, split() and int() are        *)
(* computed the way the code computes them.                                *)
(***************************************************************************)
EXTENDS Integers, Sequences, FiniteSets, TLC

(***************************************************************************)
(* Bounds of the model.                                                    *)
(***************************************************************************)
\* longest candidate list handed to _send_command
MaxCandidates == 3
\* most data rows in one table the device prints
MaxRows == 2

(***************************************************************************)
(* Python values.                                                          *)
(***************************************************************************)
\* the outcome of a call: a returned value or a raised exception
Return(v) == [kind |-> "return", exc |-> "", value |-> v]
Raise(e) == [kind |-> "raise", exc |-> e, value |-> <<>>]
\* a float with numerator num over denominator den (a power of ten)
Float(n) == [num |-> n, den |-> 1]

\* str.__contains__ on one line: pat occurs in line as a contiguous run
Contains(line, pat) ==
    \E i \in 0..(Len(line) - Len(pat)) : SubSeq(line, i + 1, i + Len(pat)) = pat

\* str.__contains__ on a text, for a pattern that holds no newline
TextContains(text, pat) == \E k \in DOMAIN text : Contains(text[k], pat)

\* str.startswith
StartsWith(line, pat) == Len(line) >= Len(pat) /\ SubSeq(line, 1, Len(pat)) = pat

\* the positions (0-based offsets) at which pat occurs in line
Occurrences(line, pat) ==
    {i \in 0..(Len(line) - Len(pat)) : SubSeq(line, i + 1, i + Len(pat)) = pat}

Min(S) == CHOOSE x \in S : \A y \in S : x <= y

\* s[a:b] with 0 <= a, as Python clamps it
Slice(s, a, b) == SubSeq(s, a + 1, IF b < Len(s) THEN b ELSE Len(s))

\* s[:-1]
DropLast(s) == SubSeq(s, 1, Len(s) - 1)

\* str.isspace() of one character, which str.strip(), str.split(), int(),
\* float() and the \s of re share: tab, newline, vertical tab, form feed,
\* carriage return, the separators U+001C to U+001F, space, U+0085, U+00A0 and
\* U+1680 (the spaces from U+2000 on are outside the alphabet of this module)
IsSpace(c) ==
    c \in {" ", "\t", "\n", "\r", "\f", "", "", "", "", "", "", " ", " "}

\* str.lstrip(), str.rstrip(), str.strip()
RECURSIVE lstrip(_)
lstrip(s) == IF s # <<>> /\ IsSpace(Head(s)) THEN lstrip(Tail(s)) ELSE s
RECURSIVE rstrip(_)
rstrip(s) == IF s # <<>> /\ IsSpace(s[Len(s)]) THEN rstrip(DropLast(s)) ELSE s
strip(s) == lstrip(rstrip(s))

\* the first whitespace-free run of s, for s that starts with no whitespace
RECURSIVE FirstToken(_)
FirstToken(s) ==
    IF s = <<>> \/ IsSpace(Head(s)) THEN <<>> ELSE <<Head(s)>> \o FirstToken(Tail(s))

\* str.split(): the maximal whitespace-free runs of the line, in order
RECURSIVE split(_)
split(line) ==
    LET s == lstrip(line) IN
    IF s = <<>> THEN <<>>
    ELSE LET t == FirstToken(s) IN <<t>> \o split(SubSeq(s, Len(t) + 1, Len(s)))

\* the letters A to Z and a to z
AsciiUpperCase == <<"A", "B", "C", "D", "E", "F", "G", "H", "I", "J", "K", "L", "M",
                    "N", "O", "P", "Q", "R", "S", "T", "U", "V", "W", "X", "Y", "Z">>
AsciiLowerCase == <<"a", "b", "c", "d", "e", "f", "g", "h", "i", "j", "k", "l", "m",
                    "n", "o", "p", "q", "r", "s", "t", "u", "v", "w", "x", "y", "z">>

\* a string with its letters A to Z in lower case, as the numeral readers and
\* the hexadecimal readers compare letters
AsciiLower(s) ==
    [k \in DOMAIN s |->
        IF \E u \in DOMAIN AsciiUpperCase : AsciiUpperCase[u] = s[k]
        THEN AsciiLowerCase[CHOOSE u \in DOMAIN AsciiUpperCase : AsciiUpperCase[u] = s[k]]
        ELSE s[k]]

\* a string with its letters a to z in upper case
AsciiUpper(s) ==
    [k \in DOMAIN s |->
        IF \E u \in DOMAIN AsciiLowerCase : AsciiLowerCase[u] = s[k]
        THEN AsciiUpperCase[CHOOSE u \in DOMAIN AsciiLowerCase : AsciiLowerCase[u] = s[k]]
        ELSE s[k]]

\* the decimal digits (Unicode category Nd) a string of this module can
\* hold, each script's from zero to nine
Digits ==
    <<<<"0", "1", "2", "3", "4", "5", "6", "7", "8", "9">>,
      <<"۰", "۱", "۲", "۳", "۴", "۵", "۶", "۷", "۸", "۹">>,
      <<"߀", "߁", "߂", "߃", "߄", "߅", "߆", "߇", "߈", "߉">>,
      <<"০", "১", "২", "৩", "৪", "৫", "৬", "৭", "৮", "৯">>,
      <<"૦", "૧", "૨", "૩", "૪", "૫", "૬", "૭", "૮", "૯">>,
      <<"௦", "௧", "௨", "௩", "௪", "௫", "௬", "௭", "௮", "௯">>,
      <<"೦", "೧", "೨", "೩", "೪", "೫", "೬", "೭", "೮", "೯">>,
      <<"෦", "෧", "෨", "෩", "෪", "෫", "෬", "෭", "෮", "෯">>,
      <<"໐", "໑", "໒", "໓", "໔", "໕", "໖", "໗", "໘", "໙">>,
      <<"႐", "႑", "႒", "႓", "႔", "႕", "႖", "႗", "႘", "႙">>,
      <<"០", "១", "២", "៣", "៤", "៥", "៦", "៧", "៨", "៩">>,
      <<"᧐", "᧑", "᧒", "᧓", "᧔", "᧕", "᧖", "᧗", "᧘", "᧙">>,
      <<"᪀", "᪁", "᪂", "᪃", "᪄", "᪅", "᪆", "᪇", "᪈", "᪉">>,
      <<"᪐", "᪑", "᪒", "᪓", "᪔", "᪕", "᪖", "᪗", "᪘", "᪙">>,
      <<"᮰", "᮱", "᮲", "᮳", "᮴", "᮵", "᮶", "᮷", "᮸", "᮹">>,
      <<"꣐", "꣑", "꣒", "꣓", "꣔", "꣕", "꣖", "꣗", "꣘", "꣙">>,
      <<"꧐", "꧑", "꧒", "꧓", "꧔", "꧕", "꧖", "꧗", "꧘", "꧙">>,
      <<"꧰", "꧱", "꧲", "꧳", "꧴", "꧵", "꧶", "꧷", "꧸", "꧹">>,
      <<"꯰", "꯱", "꯲", "꯳", "꯴", "꯵", "꯶", "꯷", "꯸", "꯹">>>>
DigitCharacters == {Digits[r][d] : r \in DOMAIN Digits, d \in 1..10}
IsDigit(c) == c \in DigitCharacters
DigitValue(c) == (CHOOSE d \in 1..10 : \E r \in DOMAIN Digits : Digits[r][d] = c) - 1

\* the value of a run of decimal digits
RECURSIVE DigitsValue(_)
DigitsValue(s) ==
    IF s = <<>> THEN 0 ELSE 10 * DigitsValue(DropLast(s)) + DigitValue(s[Len(s)])

IsDigits(s) == s # <<>> /\ \A k \in DOMAIN s : IsDigit(s[k])

\* a numeral part as int() and float() read it: decimal digits, where single
\* underscores may stand between two digits
IsDigitPart(s) ==
    /\ s # <<>>
    /\ IsDigit(s[1])
    /\ IsDigit(s[Len(s)])
    /\ \A k \in DOMAIN s :
           \/ IsDigit(s[k])
           \/ s[k] = "_" /\ IsDigit(s[k - 1]) /\ IsDigit(s[k + 1])

\* the digits of a numeral part
RECURSIVE WithoutUnderscores(_)
WithoutUnderscores(s) ==
    IF s = <<>> THEN <<>>
    ELSE IF Head(s) = "_" THEN WithoutUnderscores(Tail(s))
    ELSE <<Head(s)>> \o WithoutUnderscores(Tail(s))

\* the whitespace int() and float() strip around a numeral: that of
\* str.isspace() except the separators U+001C to U+001F
IsNumeralSpace(c) == IsSpace(c) /\ c \notin {"", "", "", ""}
RECURSIVE StripNumeral(_)
StripNumeral(s) ==
    IF s # <<>> /\ IsNumeralSpace(Head(s)) THEN StripNumeral(Tail(s))
    ELSE IF s # <<>> /\ IsNumeralSpace(s[Len(s)]) THEN StripNumeral(DropLast(s))
    ELSE s

IsSigned(s) == s # <<>> /\ s[1] \in {"+", "-"}
Unsigned(s) == IF IsSigned(s) THEN Tail(s) ELSE s
Sign(s) == IF IsSigned(s) /\ s[1] = "-" THEN -1 ELSE 1

\* int(str): the whitespace around the numeral stripped, an optional sign and a numeral
\* part, ValueError otherwise
int(str) ==
    LET s == StripNumeral(str) IN
    IF IsDigitPart(Unsigned(s))
    THEN Return(Sign(s) * DigitsValue(WithoutUnderscores(Unsigned(s))))
    ELSE Raise("ValueError")

RECURSIVE Pow10(_)
Pow10(n) == IF n = 0 THEN 1 ELSE 10 * Pow10(n - 1)

\* a float in lowest decimal terms: 9.50 and 9.5 are the same float
RECURSIVE Reduce(_)
Reduce(f) ==
    IF f.den > 1 /\ f.num % 10 = 0 THEN Reduce([num |-> f.num \div 10, den |-> f.den \div 10])
    ELSE f

\* the floats that are no number: inf and -inf have den 0 and num 1 and -1,
\* nan has den 0 and num 0
Infinity(sign) == [num |-> sign, den |-> 0]
NaN == [num |-> 0, den |-> 0]

\* the float of a mantissa whole.frac (digits) scaled by ten to the exponent
Decimal(sign, whole, frac, exponent) ==
    LET digits == DigitsValue(whole \o frac)
        scale == Len(frac) - exponent
    IN  IF scale >= 0
        THEN Reduce([num |-> sign * digits, den |-> Pow10(scale)])
        ELSE [num |-> sign * digits * Pow10(0 - scale), den |-> 1]

\* the place of the first c in s, one past the end of s when it holds none
Find(s, c) ==
    LET places == {k \in DOMAIN s : s[k] = c}
    IN  IF places = {} THEN Len(s) + 1 ELSE Min(places)

\* a decimal numeral of float(): numeral parts whole and frac around the
\* point, one of which may be missing, and after e an optional sign and a
\* numeral part
DecimalNumeral(sign, whole, frac, exponent, scaled) ==
    IF /\ scaled => IsDigitPart(Unsigned(exponent))
       /\ whole = <<>> \/ IsDigitPart(whole)
       /\ frac = <<>> \/ IsDigitPart(frac)
       /\ whole \o frac # <<>>
    THEN Return(Decimal(sign, WithoutUnderscores(whole), WithoutUnderscores(frac),
                        IF scaled
                        THEN Sign(exponent)
                             * DigitsValue(WithoutUnderscores(Unsigned(exponent)))
                        ELSE 0))
    ELSE Raise("ValueError")

\* the mantissa before e, parted at its first point (a second point stands
\* in frac, which is then no numeral part)
MantissaNumeral(sign, mantissa, exponent, scaled) ==
    DecimalNumeral(sign, SubSeq(mantissa, 1, Find(mantissa, ".") - 1),
                   SubSeq(mantissa, Find(mantissa, ".") + 1, Len(mantissa)),
                   exponent, scaled)

\* the numeral of float() after its sign, in lower case: inf, infinity, nan,
\* or a decimal numeral parted at its first e (a second e stands in the
\* exponent, which is then no numeral part)
FloatNumeral(sign, body) ==
    IF body \in {<<"i", "n", "f">>, <<"i", "n", "f", "i", "n", "i", "t", "y">>}
    THEN Return(Infinity(sign))
    ELSE IF body = <<"n", "a", "n">> THEN Return(NaN)
    ELSE MantissaNumeral(sign, SubSeq(body, 1, Find(body, "e") - 1),
                         SubSeq(body, Find(body, "e") + 1, Len(body)),
                         Find(body, "e") <= Len(body))

\* the sign of a stripped numeral of float() taken off
SignedNumeral(s) == FloatNumeral(Sign(s), Unsigned(s))

\* float(str): the whitespace around the numeral stripped, an optional sign, then inf,
\* infinity or nan in any case, or a decimal numeral: numeral parts around at
\* most one point (one of them may be missing) and an optional exponent, e or
\* E with an optional sign and a numeral part; ValueError otherwise
float(str) == SignedNumeral(AsciiLower(StripNumeral(str)))

\* the marker of dell.py:134, "% Invalid"
InvalidMarker == <<"%", " ", "I", "n", "v", "a", "l", "i", "d">>

(***************************************************************************)
(* The names bound in the module namespace of dell.py (its imports and     *)
(* its one class).  A global name outside this set raises NameError when   *)
(* it is evaluated.                                                        *)
(***************************************************************************)
ModuleNames ==
    {"print_function", "unicode_literals", "re", "socket", "collections",
     "ConnectHandler", "FileTransfer", "InLineTransfer", "NetworkDriver",
     "napalm", "C", "py23_compat", "cast_ip", "cast_mac",
     "canonical_interface_name", "ConnectionException", "DNOS6Driver"}

(***************************************************************************)
(* Constructor options: the keys given and their values.                   *)
(***************************************************************************)
OptionalArgsSet ==
    [keys : SUBSET {"transport", "port", "inline_transfer", "canonical_int"},
     transport : {"ssh", "telnet"},
     port : {2222},
     inline_transfer : BOOLEAN,
     canonical_int : {TRUE}]

\* dict.get(key, default)
OptGet(optional_args, key, default) ==
    IF key \in optional_args.keys THEN optional_args[key] ELSE default

default_port == [ssh |-> 22, telnet |-> 23]

\* the keys of netmiko_argument_map that optional_args gives (dell.py:80-85)
NetmikoKeys == {"port", "secret", "verbose", "keepalive", "global_delay_factor",
                "use_keys", "key_file", "ssh_strict", "system_host_keys",
                "alt_host_keys", "alt_key_file", "ssh_config_file", "allow_agent"}

VARIABLES
    transport,               \* self.transport
    candidate_cfg,           \* self.candidate_cfg
    merge_cfg,               \* self.merge_cfg
    rollback_cfg,            \* self.rollback_cfg
    inline_transfer,         \* self.inline_transfer
    dest_file_system,        \* self._dest_file_system
    auto_rollback_on_error,  \* self.auto_rollback_on_error
    auto_file_prompt,        \* self.auto_file_prompt
    netmiko_optional_args,   \* self.netmiko_optional_args (its keys)
    port,                    \* self.port
    device,                  \* self.device: "None" or "session"
    config_replace,          \* self.config_replace
    profile,                 \* self.profile
    use_canonical_interface, \* self.use_canonical_interface
    session,                 \* the session self.device names: "none", "established", "disconnected"
    opened,                  \* open() has been called on this driver
    call,                    \* the call that has just ended, Idle between calls
    sent,                    \* what that call wrote to the transport, in order
    received,                \* what the transport answered to each of these, in order
    outcome,                 \* what that call returned or raised
    retrieved                \* a fact-retrieval call has ended on this driver before

fields == <<transport, candidate_cfg, merge_cfg, rollback_cfg, inline_transfer,
            dest_file_system, auto_rollback_on_error, auto_file_prompt,
            netmiko_optional_args, port, device, config_replace, profile,
            use_canonical_interface>>

\* what a later call can read of the driver
driver == <<fields, session, opened>>

vars == <<driver, call, sent, received, outcome, retrieved>>

\* the fact-retrieval calls
Retrievals ==
    {"get_config", "get_environment", "get_mac_address_table", "get_arp_table",
     "get_interfaces", "get_lldp_neighbors", "get_ntp_peers"}

\* a command string: fixed text and the value substituted for %s, if any
Cmd(text) == [text |-> text, arg |-> <<>>]
CmdArg(text, arg) == [text |-> text, arg |-> arg]

\* a call and its arguments; between two calls the driver is idle
Call(op, arg) == [op |-> op, arg |-> arg]
Idle == Call("idle", <<>>)

(***************************************************************************)
(* __init__ (dell.py:37-98)                                                *)
(***************************************************************************)
Init ==
    \E optional_args \in OptionalArgsSet :
        /\ transport = OptGet(optional_args, "transport", "ssh")
        /\ candidate_cfg = "candidate_config.txt"
        /\ merge_cfg = "merge_config.txt"
        /\ rollback_cfg = "rollback_config.txt"
        /\ inline_transfer =
               IF OptGet(optional_args, "transport", "ssh") = "telnet"
               THEN TRUE
               ELSE OptGet(optional_args, "inline_transfer", FALSE)
        /\ dest_file_system = "None"
        /\ auto_rollback_on_error = TRUE
        /\ auto_file_prompt = TRUE
        /\ netmiko_optional_args = optional_args.keys \cap NetmikoKeys
        /\ port = OptGet(optional_args, "port",
                         default_port[OptGet(optional_args, "transport", "ssh")])
        /\ device = "None"
        /\ config_replace = FALSE
        /\ profile = <<"dnos6">>
        /\ use_canonical_interface = OptGet(optional_args, "canonical_int", FALSE)
        /\ session = "none"
        /\ opened = FALSE
        /\ call = Idle
        /\ sent = <<>>
        /\ received = <<>>
        /\ outcome = Return("None")
        /\ retrieved = FALSE

(***************************************************************************)
(* The transport session (netmiko), seen from the driver.                  *)
(***************************************************************************)
\* what the device answers to one send_command: a text, or the transport raises
Reply(text) == [exc |-> "", text |-> text]
Fails(e) == [exc |-> e, text |-> <<>>]

\* the errors a send or a write on the session can end in
TransportErrors(s) ==
    IF s = "established" THEN {"socket.error", "EOFError"}
    ELSE {"socket.error", "EOFError", "AttributeError"}

\* the replies a session can give when the device would answer with one of texts
Replies(s, texts) ==
    (IF s = "established" THEN {Reply(t) : t \in texts} ELSE {})
        \cup {Fails(e) : e \in TransportErrors(s)}

\* a result of running code against the session: its outcome and what it sent
Res(o, s) == [outcome |-> o, sent |-> s]

(***************************************************************************)
(* open (dell.py:100-111)                                                  *)
(***************************************************************************)
open ==
    \E how \in {"ok", "connect fails", "enable fails"} :
        /\ call.op = "idle"
        /\ call' = Call("open", <<>>)
        /\ opened' = TRUE
        /\ sent' = <<>>
        /\ received' = <<>>
        /\ IF how = "connect fails"
           THEN /\ outcome' = Raise("NetMikoTimeoutException")
                /\ UNCHANGED <<device, session>>
           ELSE /\ device' = "session"
                /\ session' = "established"
                /\ outcome' = IF how = "ok" THEN Return("None") ELSE Raise("ValueError")
        /\ UNCHANGED <<transport, candidate_cfg, merge_cfg, rollback_cfg,
                       inline_transfer, dest_file_system, auto_rollback_on_error,
                       auto_file_prompt, netmiko_optional_args, port,
                       config_replace, profile, use_canonical_interface, retrieved>>

(***************************************************************************)
(* close (dell.py:121-123)                                                 *)
(***************************************************************************)
\* the outcome of self.device.disconnect() for the value dev of self.device
close_outcome(dev) ==
    IF dev = "None" THEN Raise("AttributeError") ELSE Return("None")

close ==
    /\ call.op = "idle"
    /\ call' = Call("close", <<>>)
    /\ sent' = <<>>
    /\ received' = <<>>
    /\ outcome' = close_outcome(device)
    /\ session' = IF device = "None" THEN session ELSE "disconnected"
    /\ UNCHANGED <<fields, opened, retrieved>>

(***************************************************************************)
(* _send_command (dell.py:125-141)                                         *)
(***************************************************************************)
\* a command argument: a single string (isList FALSE, one element) or a list
Single(cmd) == [isList |-> FALSE, cmds |-> <<cmd>>]
List(cmds) == [isList |-> TRUE, cmds |-> cmds]

\* self.device.send_command(cmd) with the reply the transport gives
device_send_command(dev, cmd, reply) ==
    IF dev = "None" THEN Res(Raise("AttributeError"), <<>>)
    ELSE IF reply.exc # "" THEN Res(Raise(reply.exc), <<cmd>>)
    ELSE Res(Return(reply.text), <<cmd>>)

\* a faulty dispatcher that has no break: it goes on after a response that is
\* not invalid and returns the response to the last candidate
RECURSIVE send_loop_without_break(_, _, _, _)
send_loop_without_break(dev, cmds, replies, k) ==
    IF k > Len(cmds)
    THEN IF k = 1
         THEN Res(Raise("UnboundLocalError"), <<>>)
         ELSE Res(Return(replies[k - 1].text), <<>>)
    ELSE LET r == device_send_command(dev, cmds[k], replies[k]) IN
         IF r.outcome.kind = "raise" THEN r
         ELSE LET rest == send_loop_without_break(dev, cmds, replies, k + 1) IN
              Res(rest.outcome, r.sent \o rest.sent)

\* a faulty dispatcher that gives up after its first candidate, invalid or not
send_loop_first_only(dev, cmds, replies, k) ==
    IF k > Len(cmds)
    THEN Res(Raise("UnboundLocalError"), <<>>)
    ELSE device_send_command(dev, cmds[k], replies[k])

\* the for loop of dell.py:132-135 from candidate k on; output is bound once k > 1
RECURSIVE send_loop(_, _, _, _)
send_loop(dev, cmds, replies, k) ==
    IF k > Len(cmds)
    THEN IF k = 1
         THEN Res(Raise("UnboundLocalError"), <<>>)
         ELSE Res(Return(replies[k - 1].text), <<>>)
    ELSE LET r == device_send_command(dev, cmds[k], replies[k]) IN
         IF r.outcome.kind = "raise" THEN r
         ELSE IF ~TextContains(r.outcome.value, InvalidMarker) THEN r
         ELSE LET rest == send_loop(dev, cmds, replies, k + 1) IN
              Res(rest.outcome, r.sent \o rest.sent)

\* the except clause of dell.py:140-141
send_command_except(r) ==
    IF r.outcome.kind = "raise" /\ r.outcome.exc \in {"socket.error", "EOFError"}
    THEN IF "ConnectionClosedException" \in ModuleNames
         THEN Res(Raise("ConnectionClosedException"), r.sent)
         ELSE Res(Raise("NameError"), r.sent)
    ELSE r

_send_command(dev, command, replies) ==
    send_command_except(
        IF command.isList
        THEN send_loop(dev, command.cmds, replies, 1)
        ELSE device_send_command(dev, command.cmds[1], replies[1]))

(***************************************************************************)
(* is_alive (dell.py:143-168)                                              *)
(***************************************************************************)
\* the outcomes of a write_channel on the session
WriteOutcomes(s) ==
    IF s = "established" THEN {"ok", "socket.error", "EOFError", "UnicodeDecodeError"}
    ELSE TransportErrors(s)

\* a faulty is_alive that does not test self.device before it writes
is_alive_without_null_test(dev, tr, write, active) ==
    IF tr = "telnet"
    THEN IF write \in {"ok", "UnicodeDecodeError"}
         THEN Res(Return([is_alive |-> TRUE]), <<Cmd("IAC NOP")>>)
         ELSE IF write = "AttributeError"
              THEN Res(Return([is_alive |-> FALSE]), <<Cmd("IAC NOP")>>)
         ELSE Res(Raise(write), <<Cmd("IAC NOP")>>)
    ELSE IF write = "ok" THEN Res(Return([is_alive |-> active]), <<Cmd("chr(0)")>>)
         ELSE IF write \in {"socket.error", "EOFError"}
              THEN Res(Return([is_alive |-> FALSE]), <<Cmd("chr(0)")>>)
         ELSE Res(Raise(write), <<Cmd("chr(0)")>>)

\* write is the outcome of write_channel, active what transport.is_active() answers
is_alive_result(dev, tr, write, active) ==
    IF dev = "None" THEN Res(Return([is_alive |-> FALSE]), <<>>)
    ELSE IF tr = "telnet"
    THEN IF "telnetlib" \notin ModuleNames THEN Res(Raise("NameError"), <<>>)
         ELSE IF write = "ok" THEN Res(Return([is_alive |-> TRUE]), <<Cmd("IAC NOP")>>)
         ELSE IF write = "UnicodeDecodeError"
              THEN Res(Return([is_alive |-> TRUE]), <<Cmd("IAC NOP")>>)
         ELSE IF write = "AttributeError"
              THEN Res(Return([is_alive |-> FALSE]), <<Cmd("IAC NOP")>>)
         ELSE Res(Raise(write), <<Cmd("IAC NOP")>>)
    ELSE IF write = "ok" THEN Res(Return([is_alive |-> active]), <<Cmd("chr(0)")>>)
         ELSE IF write \in {"socket.error", "EOFError"}
              THEN Res(Return([is_alive |-> FALSE]), <<Cmd("chr(0)")>>)
         ELSE Res(Raise(write), <<Cmd("chr(0)")>>)

is_alive ==
    \E write \in WriteOutcomes(session), active \in BOOLEAN :
        LET r == is_alive_result(device, transport, write, active) IN
        /\ call.op = "idle"
        /\ call' = Call("is_alive", <<>>)
        /\ sent' = r.sent
        /\ received' = [k \in 1..Len(r.sent) |-> Fails(IF write = "ok" THEN "" ELSE write)]
        /\ outcome' = r.outcome
        /\ UNCHANGED <<fields, session, opened, retrieved>>

(***************************************************************************)
(* Device texts.                                                           *)
(***************************************************************************)
\* the empty string
EmptyText == << <<>> >>

\* the device's answer to a command it does not know
InvalidText ==
    <<<<>>,
      <<"%", " ", "I", "n", "v", "a", "l", "i", "d", " ", "i", "n", "p", "u", "t", " ", "d", "e", "t", "e", "c", "t", "e", "d", " ", "a", "t", " ", "'", "^", "'", " ", "m", "a", "r", "k", "e", "r", ".">>>>

VersionText ==
    <<<<"M", "a", "c", "h", "i", "n", "e", " ", "T", "y", "p", "e", ":", " ", "N", "3", "0", "4", "8">>>>

\* the candidate command variants handed to _send_command directly
DigitChars == <<"1", "2", "3", "4", "5", "6", "7", "8", "9">>
Variant(k) == CmdArg("show version variant", <<DigitChars[k]>>)
CandidateLists == {[k \in 1..n |-> Variant(k)] : n \in 0..MaxCandidates}
DispatchCommands == {Single(Variant(1))} \cup {List(cmds) : cmds \in CandidateLists}
DispatchTexts == {InvalidText, VersionText}

\* a direct call of _send_command(command)
call_send_command ==
    \E command \in DispatchCommands :
        \E replies \in [1..Len(command.cmds) -> Replies(session, DispatchTexts)] :
            LET r == _send_command(device, command, replies) IN
            /\ call.op = "idle"
            /\ call' = Call("_send_command", command)
            /\ sent' = r.sent
            /\ received' = SubSeq(replies, 1, Len(r.sent))
            /\ outcome' = r.outcome
            /\ UNCHANGED <<fields, session, opened, retrieved>>

(***************************************************************************)
(* get_config (dell.py:180-205)                                            *)
(***************************************************************************)
StartupConfigText ==
    <<<<"!", "C", "u", "r", "r", "e", "n", "t", " ", "C", "o", "n", "f", "i", "g", "u", "r", "a", "t", "i", "o", "n", ":">>,
      <<"h", "o", "s", "t", "n", "a", "m", "e", " ", "s", "w", "1">>,
      <<"e", "x", "i", "t">>>>

RunningConfigText ==
    <<<<"!">>,
      <<"i", "n", "t", "e", "r", "f", "a", "c", "e", " ", "G", "i", "1", "/", "0", "/", "1">>,
      <<"d", "e", "s", "c", "r", "i", "p", "t", "i", "o", "n", ":", " ", "\"", "u", "p", " ", "1", "\"">>,
      <<"s", "h", "u", "t", "d", "o", "w", "n">>,
      <<"e", "x", "i", "t">>,
      <<"!">>,
      <<"i", "n", "t", "e", "r", "f", "a", "c", "e", " ", "G", "i", "1", "/", "0", "/", "2">>,
      <<"n", "o", " ", "s", "h", "u", "t", "d", "o", "w", "n">>,
      <<"e", "x", "i", "t">>,
      <<>>>>

ConfigTexts == {StartupConfigText, RunningConfigText, InvalidText}

\* a faulty get_config that reads the startup configuration whatever is asked
get_config_always_startup(dev, retrieve, replies) ==
    LET startup == _send_command(dev, Single(Cmd("show startup-config")), replies)
        running == IF retrieve \in {"running", "all"}
                   THEN _send_command(dev, Single(Cmd("show running-config")),
                                      SubSeq(replies, Len(startup.sent) + 1, Len(replies)))
                   ELSE Res(Return(EmptyText), <<>>)
    IN  IF startup.outcome.kind = "raise" THEN startup
        ELSE IF running.outcome.kind = "raise"
             THEN Res(running.outcome, startup.sent \o running.sent)
        ELSE Res(Return([startup |-> startup.outcome.value,
                         running |-> running.outcome.value,
                         candidate |-> EmptyText]),
                 startup.sent \o running.sent)

\* the two sends of get_config, the second run only if the first returned
get_config_result(dev, retrieve, replies) ==
    LET startup == IF retrieve \in {"startup", "all"}
                   THEN _send_command(dev, Single(Cmd("show startup-config")), replies)
                   ELSE Res(Return(EmptyText), <<>>)
        rest == SubSeq(replies, Len(startup.sent) + 1, Len(replies))
        running == IF retrieve \in {"running", "all"}
                   THEN _send_command(dev, Single(Cmd("show running-config")), rest)
                   ELSE Res(Return(EmptyText), <<>>)
    IN  IF startup.outcome.kind = "raise" THEN startup
        ELSE IF running.outcome.kind = "raise"
             THEN Res(running.outcome, startup.sent \o running.sent)
        ELSE Res(Return([startup |-> startup.outcome.value,
                         running |-> running.outcome.value,
                         candidate |-> EmptyText]),
                 startup.sent \o running.sent)

get_config ==
    \E retrieve \in {"startup", "running", "all", "candidate"} :
        \E replies \in [1..2 -> Replies(session, ConfigTexts)] :
            LET r == get_config_result(device, retrieve, replies) IN
            /\ call.op = "idle"
            /\ call' = Call("get_config", retrieve)
            /\ sent' = r.sent
            /\ received' = SubSeq(replies, 1, Len(r.sent))
            /\ outcome' = r.outcome
            /\ UNCHANGED <<fields, session, opened, retrieved>>

(***************************************************************************)
(* Helpers of napalm.base used by the parsers.                             *)
(***************************************************************************)
\* re.split(r'^----.*', output, flags=re.M): the lines that start with "----"
DelimiterLines(text) == {k \in DOMAIN text : StartsWith(text[k], <<"-", "-", "-", "-">>)}

\* the k-th delimiter line, counted from 1
RECURSIVE NthDelimiter(_, _)
NthDelimiter(text, k) ==
    IF k = 1 THEN Min(DelimiterLines(text))
    ELSE Min({d \in DelimiterLines(text) : d > NthDelimiter(text, k - 1)})

\* piece i (from 0) of that split: the text between delimiter lines i and i + 1,
\* with the newline that ends the line before it and the one that starts it
re_split_delimiter(text, i) ==
    LET n == Cardinality(DelimiterLines(text))
        first == IF i = 0 THEN 1 ELSE NthDelimiter(text, i) + 1
        last == IF i = n THEN Len(text) ELSE NthDelimiter(text, i + 1) - 1
    IN  (IF i > 0 THEN << <<>> >> ELSE <<>>)
            \o SubSeq(text, first, last)
            \o (IF i < n THEN << <<>> >> ELSE <<>>)

\* napalm.base.helpers.split_interface: head is intf_name.rstrip('/\\0123456789. ')
RECURSIVE interface_head(_)
interface_head(name) ==
    IF name # <<>>
       /\ name[Len(name)] \in {"/", "\\", "0", "1", "2", "3", "4", "5", "6", "7", "8", "9", ".", " "}
    THEN interface_head(DropLast(name))
    ELSE name

\* napalm.base.canonical_map.base_interfaces: each name napalm knows an
\* interface type by, with the long name of that type
base_interfaces ==
    {<<<<"A", "T", "M">>,
       <<"A", "T", "M">>>>,
     <<<<"A", "T">>,
       <<"A", "T", "M">>>>,
     <<<<"E", "O", "B", "C">>,
       <<"E", "O", "B", "C">>>>,
     <<<<"E", "O">>,
       <<"E", "O", "B", "C">>>>,
     <<<<"E", "t", "h", "e", "r", "n", "e", "t">>,
       <<"E", "t", "h", "e", "r", "n", "e", "t">>>>,
     <<<<"E", "t", "h">>,
       <<"E", "t", "h", "e", "r", "n", "e", "t">>>>,
     <<<<"E", "t">>,
       <<"E", "t", "h", "e", "r", "n", "e", "t">>>>,
     <<<<"F", "a", "s", "t", "E", "t", "h", "e", "r", "n", "e", "t">>,
       <<"F", "a", "s", "t", "E", "t", "h", "e", "r", "n", "e", "t">>>>,
     <<<<"F", "a", "s", "t", "E", "t", "h">>,
       <<"F", "a", "s", "t", "E", "t", "h", "e", "r", "n", "e", "t">>>>,
     <<<<"F", "a", "s", "t", "E">>,
       <<"F", "a", "s", "t", "E", "t", "h", "e", "r", "n", "e", "t">>>>,
     <<<<"F", "a", "s", "t">>,
       <<"F", "a", "s", "t", "E", "t", "h", "e", "r", "n", "e", "t">>>>,
     <<<<"F", "a", "s">>,
       <<"F", "a", "s", "t", "E", "t", "h", "e", "r", "n", "e", "t">>>>,
     <<<<"F", "E">>,
       <<"F", "a", "s", "t", "E", "t", "h", "e", "r", "n", "e", "t">>>>,
     <<<<"F", "a">>,
       <<"F", "a", "s", "t", "E", "t", "h", "e", "r", "n", "e", "t">>>>,
     <<<<"F", "d", "d", "i">>,
       <<"F", "d", "d", "i">>>>,
     <<<<"F", "D">>,
       <<"F", "d", "d", "i">>>>,
     <<<<"F", "o", "r", "t", "y", "G", "i", "g", "a", "b", "i", "t", "E", "t", "h", "e", "r", "n", "e", "t">>,
       <<"F", "o", "r", "t", "y", "G", "i", "g", "a", "b", "i", "t", "E", "t", "h", "e", "r", "n", "e", "t">>>>,
     <<<<"F", "o", "r", "t", "y", "G", "i", "g", "E", "t", "h", "e", "r", "n", "e", "t">>,
       <<"F", "o", "r", "t", "y", "G", "i", "g", "a", "b", "i", "t", "E", "t", "h", "e", "r", "n", "e", "t">>>>,
     <<<<"F", "o", "r", "t", "y", "G", "i", "g", "E", "t", "h">>,
       <<"F", "o", "r", "t", "y", "G", "i", "g", "a", "b", "i", "t", "E", "t", "h", "e", "r", "n", "e", "t">>>>,
     <<<<"F", "o", "r", "t", "y", "G", "i", "g", "E">>,
       <<"F", "o", "r", "t", "y", "G", "i", "g", "a", "b", "i", "t", "E", "t", "h", "e", "r", "n", "e", "t">>>>,
     <<<<"F", "o", "r", "t", "y", "G", "i", "g">>,
       <<"F", "o", "r", "t", "y", "G", "i", "g", "a", "b", "i", "t", "E", "t", "h", "e", "r", "n", "e", "t">>>>,
     <<<<"F", "G", "E">>,
       <<"F", "o", "r", "t", "y", "G", "i", "g", "a", "b", "i", "t", "E", "t", "h", "e", "r", "n", "e", "t">>>>,
     <<<<"F", "O">>,
       <<"F", "o", "r", "t", "y", "G", "i", "g", "a", "b", "i", "t", "E", "t", "h", "e", "r", "n", "e", "t">>>>,
     <<<<"F", "o">>,
       <<"F", "o", "r", "t", "y", "G", "i", "g", "a", "b", "i", "t", "E", "t", "h", "e", "r", "n", "e", "t">>>>,
     <<<<"G", "i", "g", "a", "b", "i", "t", "E", "t", "h", "e", "r", "n", "e", "t">>,
       <<"G", "i", "g", "a", "b", "i", "t", "E", "t", "h", "e", "r", "n", "e", "t">>>>,
     <<<<"G", "i", "g", "E", "t", "h", "e", "r", "n", "e", "t">>,
       <<"G", "i", "g", "a", "b", "i", "t", "E", "t", "h", "e", "r", "n", "e", "t">>>>,
     <<<<"G", "i", "g", "E", "t", "h">>,
       <<"G", "i", "g", "a", "b", "i", "t", "E", "t", "h", "e", "r", "n", "e", "t">>>>,
     <<<<"G", "i", "g", "E">>,
       <<"G", "i", "g", "a", "b", "i", "t", "E", "t", "h", "e", "r", "n", "e", "t">>>>,
     <<<<"G", "i", "g">>,
       <<"G", "i", "g", "a", "b", "i", "t", "E", "t", "h", "e", "r", "n", "e", "t">>>>,
     <<<<"G", "E">>,
       <<"G", "i", "g", "a", "b", "i", "t", "E", "t", "h", "e", "r", "n", "e", "t">>>>,
     <<<<"G", "e">>,
       <<"G", "i", "g", "a", "b", "i", "t", "E", "t", "h", "e", "r", "n", "e", "t">>>>,
     <<<<"G", "i">>,
       <<"G", "i", "g", "a", "b", "i", "t", "E", "t", "h", "e", "r", "n", "e", "t">>>>,
     <<<<"H", "u", "n", "d", "r", "e", "d", "G", "i", "g", "a", "b", "i", "t", "E", "t", "h", "e", "r", "n", "e", "t">>,
       <<"H", "u", "n", "d", "r", "e", "d", "G", "i", "g", "a", "b", "i", "t", "E", "t", "h", "e", "r", "n", "e", "t">>>>,
     <<<<"H", "u", "n", "d", "r", "e", "d", "G", "i", "g", "E", "t", "h", "e", "r", "n", "e", "t">>,
       <<"H", "u", "n", "d", "r", "e", "d", "G", "i", "g", "a", "b", "i", "t", "E", "t", "h", "e", "r", "n", "e", "t">>>>,
     <<<<"H", "u", "n", "d", "r", "e", "d", "G", "i", "g", "E", "t", "h">>,
       <<"H", "u", "n", "d", "r", "e", "d", "G", "i", "g", "a", "b", "i", "t", "E", "t", "h", "e", "r", "n", "e", "t">>>>,
     <<<<"H", "u", "n", "d", "r", "e", "d", "G", "i", "g", "E">>,
       <<"H", "u", "n", "d", "r", "e", "d", "G", "i", "g", "a", "b", "i", "t", "E", "t", "h", "e", "r", "n", "e", "t">>>>,
     <<<<"H", "u", "n", "d", "r", "e", "d", "G", "i", "g">>,
       <<"H", "u", "n", "d", "r", "e", "d", "G", "i", "g", "a", "b", "i", "t", "E", "t", "h", "e", "r", "n", "e", "t">>>>,
     <<<<"H", "u">>,
       <<"H", "u", "n", "d", "r", "e", "d", "G", "i", "g", "a", "b", "i", "t", "E", "t", "h", "e", "r", "n", "e", "t">>>>,
     <<<<"L", "o", "o", "p", "b", "a", "c", "k">>,
       <<"L", "o", "o", "p", "b", "a", "c", "k">>>>,
     <<<<"l", "o", "o", "p", "b", "a", "c", "k">>,
       <<"L", "o", "o", "p", "b", "a", "c", "k">>>>,
     <<<<"L", "o">>,
       <<"L", "o", "o", "p", "b", "a", "c", "k">>>>,
     <<<<"l", "o">>,
       <<"L", "o", "o", "p", "b", "a", "c", "k">>>>,
     <<<<"M", "a", "n", "a", "g", "e", "m", "e", "n", "t">>,
       <<"M", "a", "n", "a", "g", "e", "m", "e", "n", "t">>>>,
     <<<<"M", "g", "m", "t">>,
       <<"M", "a", "n", "a", "g", "e", "m", "e", "n", "t">>>>,
     <<<<"m", "g", "m", "t">>,
       <<"M", "a", "n", "a", "g", "e", "m", "e", "n", "t">>>>,
     <<<<"M", "a">>,
       <<"M", "a", "n", "a", "g", "e", "m", "e", "n", "t">>>>,
     <<<<"M", "a", "n", "a", "g", "e", "m", "e", "n", "t", "_", "s", "h", "o", "r", "t">>,
       <<"M", "a">>>>,
     <<<<"M", "F", "R">>,
       <<"M", "F", "R">>>>,
     <<<<"M", "u", "l", "t", "i", "l", "i", "n", "k">>,
       <<"M", "u", "l", "t", "i", "l", "i", "n", "k">>>>,
     <<<<"M", "u">>,
       <<"M", "u", "l", "t", "i", "l", "i", "n", "k">>>>,
     <<<<"n">>,
       <<"n", "v", "e">>>>,
     <<<<"n", "v">>,
       <<"n", "v", "e">>>>,
     <<<<"n", "v", "e">>,
       <<"n", "v", "e">>>>,
     <<<<"P", "o", "r", "t", "C", "h", "a", "n", "n", "e", "l">>,
       <<"P", "o", "r", "t", "-", "c", "h", "a", "n", "n", "e", "l">>>>,
     <<<<"P", "o", "r", "t", "-", "c", "h", "a", "n", "n", "e", "l">>,
       <<"P", "o", "r", "t", "-", "c", "h", "a", "n", "n", "e", "l">>>>,
     <<<<"P", "o", "r", "t", "-", "C", "h", "a", "n", "n", "e", "l">>,
       <<"P", "o", "r", "t", "-", "c", "h", "a", "n", "n", "e", "l">>>>,
     <<<<"p", "o", "r", "t", "-", "c", "h", "a", "n", "n", "e", "l">>,
       <<"P", "o", "r", "t", "-", "c", "h", "a", "n", "n", "e", "l">>>>,
     <<<<"p", "o">>,
       <<"P", "o", "r", "t", "-", "c", "h", "a", "n", "n", "e", "l">>>>,
     <<<<"P", "o">>,
       <<"P", "o", "r", "t", "-", "c", "h", "a", "n", "n", "e", "l">>>>,
     <<<<"P", "O", "S">>,
       <<"P", "O", "S">>>>,
     <<<<"P", "O">>,
       <<"P", "O", "S">>>>,
     <<<<"S", "e", "r", "i", "a", "l">>,
       <<"S", "e", "r", "i", "a", "l">>>>,
     <<<<"S", "e">>,
       <<"S", "e", "r", "i", "a", "l">>>>,
     <<<<"S">>,
       <<"S", "e", "r", "i", "a", "l">>>>,
     <<<<"T", "e", "n", "G", "i", "g", "a", "b", "i", "t", "E", "t", "h", "e", "r", "n", "e", "t">>,
       <<"T", "e", "n", "G", "i", "g", "a", "b", "i", "t", "E", "t", "h", "e", "r", "n", "e", "t">>>>,
     <<<<"T", "e", "n", "G", "i", "g", "E", "t", "h", "e", "r", "n", "e", "t">>,
       <<"T", "e", "n", "G", "i", "g", "a", "b", "i", "t", "E", "t", "h", "e", "r", "n", "e", "t">>>>,
     <<<<"T", "e", "n", "G", "i", "g", "E", "t", "h">>,
       <<"T", "e", "n", "G", "i", "g", "a", "b", "i", "t", "E", "t", "h", "e", "r", "n", "e", "t">>>>,
     <<<<"T", "e", "n", "G", "i", "g">>,
       <<"T", "e", "n", "G", "i", "g", "a", "b", "i", "t", "E", "t", "h", "e", "r", "n", "e", "t">>>>,
     <<<<"T", "e", "G", "i", "g">>,
       <<"T", "e", "n", "G", "i", "g", "a", "b", "i", "t", "E", "t", "h", "e", "r", "n", "e", "t">>>>,
     <<<<"T", "e", "n">>,
       <<"T", "e", "n", "G", "i", "g", "a", "b", "i", "t", "E", "t", "h", "e", "r", "n", "e", "t">>>>,
     <<<<"T">>,
       <<"T", "e", "n", "G", "i", "g", "a", "b", "i", "t", "E", "t", "h", "e", "r", "n", "e", "t">>>>,
     <<<<"T", "e">>,
       <<"T", "e", "n", "G", "i", "g", "a", "b", "i", "t", "E", "t", "h", "e", "r", "n", "e", "t">>>>,
     <<<<"T", "u", "n", "n", "e", "l">>,
       <<"T", "u", "n", "n", "e", "l">>>>,
     <<<<"T", "u", "n">>,
       <<"T", "u", "n", "n", "e", "l">>>>,
     <<<<"T", "u">>,
       <<"T", "u", "n", "n", "e", "l">>>>,
     <<<<"T", "w", "e">>,
       <<"T", "w", "e", "n", "t", "y", "F", "i", "v", "e", "G", "i", "g", "E">>>>,
     <<<<"T", "w">>,
       <<"T", "w", "o", "G", "i", "g", "a", "b", "i", "t", "E", "t", "h", "e", "r", "n", "e", "t">>>>,
     <<<<"T", "w", "o">>,
       <<"T", "w", "o", "G", "i", "g", "a", "b", "i", "t", "E", "t", "h", "e", "r", "n", "e", "t">>>>,
     <<<<"V", "i", "r", "t", "u", "a", "l", "-", "A", "c", "c", "e", "s", "s">>,
       <<"V", "i", "r", "t", "u", "a", "l", "-", "A", "c", "c", "e", "s", "s">>>>,
     <<<<"V", "i">>,
       <<"V", "i", "r", "t", "u", "a", "l", "-", "A", "c", "c", "e", "s", "s">>>>,
     <<<<"V", "i", "r", "t", "u", "a", "l", "-", "T", "e", "m", "p", "l", "a", "t", "e">>,
       <<"V", "i", "r", "t", "u", "a", "l", "-", "T", "e", "m", "p", "l", "a", "t", "e">>>>,
     <<<<"V", "t">>,
       <<"V", "i", "r", "t", "u", "a", "l", "-", "T", "e", "m", "p", "l", "a", "t", "e">>>>,
     <<<<"V", "L", "A", "N">>,
       <<"V", "L", "A", "N">>>>,
     <<<<"V">>,
       <<"V", "L", "A", "N">>>>,
     <<<<"V", "l">>,
       <<"V", "L", "A", "N">>>>,
     <<<<"W", "l", "a", "n", "-", "G", "i", "g", "a", "b", "i", "t", "E", "t", "h", "e", "r", "n", "e", "t">>,
       <<"W", "l", "a", "n", "-", "G", "i", "g", "a", "b", "i", "t", "E", "t", "h", "e", "r", "n", "e", "t">>>>}

\* napalm.base.helpers.canonical_interface_name
canonical_interface_name(interface) ==
    LET head == interface_head(interface)
        tail == lstrip(SubSeq(interface, Len(head) + 1, Len(interface)))
    IN  IF \E e \in base_interfaces : e[1] = head
        THEN (CHOOSE e \in base_interfaces : e[1] = head)[2] \o tail
        ELSE interface

\* NetworkDriver._canonical_int, with canon the value of self.use_canonical_interface
_canonical_int(canon, interface) ==
    IF canon THEN canonical_interface_name(interface) ELSE interface

HexDigits == {"0", "1", "2", "3", "4", "5", "6", "7", "8", "9",
              "A", "B", "C", "D", "E", "F", "a", "b", "c", "d", "e", "f"}

\* str.split(sep) of a string with no line break in it, for a separator of
\* one character: the pieces between the separators
RECURSIVE split_at(_, _)
split_at(s, sep) ==
    IF Find(s, sep) > Len(s) THEN <<s>>
    ELSE <<SubSeq(s, 1, Find(s, sep) - 1)>>
             \o split_at(SubSeq(s, Find(s, sep) + 1, Len(s)), sep)

\* the groups are count groups of low to high hexadecimal digits each
IsGrouped(groups, count, low, high) ==
    /\ Len(groups) = count
    /\ \A g \in 1..count :
           /\ Len(groups[g]) \in low..high
           /\ \A k \in 1..Len(groups[g]) : groups[g][k] \in HexDigits

\* the groups, each filled with zeros on its left to the width, put together
RECURSIVE Padded(_, _)
Padded(groups, width) ==
    IF groups = <<>> THEN <<>>
    ELSE [k \in 1..(width - Len(Head(groups))) |-> "0"] \o Head(groups)
             \o Padded(Tail(groups), width)

\* the formats of netaddr.strategy.eui48, tried on a string split at its
\* colons, at its hyphens and at its points
eui48_words(colons, hyphens, points) ==
    IF IsGrouped(colons, 6, 1, 2) THEN Padded(colons, 2)
    ELSE IF IsGrouped(hyphens, 6, 1, 2) THEN Padded(hyphens, 2)
    ELSE IF IsGrouped(colons, 3, 1, 4) THEN Padded(colons, 4)
    ELSE IF IsGrouped(hyphens, 3, 1, 4) THEN Padded(hyphens, 4)
    ELSE IF IsGrouped(points, 3, 1, 4) THEN Padded(points, 4)
    ELSE IF IsGrouped(hyphens, 2, 5, 6) THEN Padded(hyphens, 6)
    ELSE IF IsGrouped(colons, 2, 5, 6) THEN Padded(colons, 6)
    ELSE IF IsGrouped(colons, 1, 11, 12) THEN Padded(colons, 12)
    ELSE <<>>

\* the string without the line feed that ends it, if one does: the "$" of a
\* pattern also stands before that line feed
BeforeLastLineFeed(s) ==
    IF s # <<>> /\ s[Len(s)] = "\n" THEN DropLast(s) ELSE s

\* netaddr.strategy.eui48.str_to_int: the twelve hexadecimal digits of an
\* address written as six groups of up to two digits with ":" or "-" between
\* them, three groups of up to four with ":", "-" or ".", two groups of five
\* or six with "-" or ":", or twelve or eleven digits on their own; <<>> for
\* any other string
eui48_str_to_int(addr) ==
    eui48_words(split_at(BeforeLastLineFeed(addr), ":"),
                split_at(BeforeLastLineFeed(addr), "-"),
                split_at(BeforeLastLineFeed(addr), "."))

RECURSIVE Pow16(_)
Pow16(n) == IF n = 0 THEN 1 ELSE 16 * Pow16(n - 1)

\* '%012X' of a number below 16^8
Hex12(n) ==
    [k \in 1..12 |->
        IF k <= 4 THEN "0"
        ELSE <<"0", "1", "2", "3", "4", "5", "6", "7", "8", "9",
               "A", "B", "C", "D", "E", "F">>[((n \div Pow16(12 - k)) % 16) + 1]]

\* the address of the digits str_to_int found, or else of the number int(raw)
\* gave; AddrFormatError when there is neither
eui48_value(digits, number) ==
    IF digits # <<>> THEN Return(AsciiUpper(digits))
    ELSE IF number.kind = "return" /\ number.value >= 0 THEN Return(Hex12(number.value))
    ELSE Raise("AddrFormatError")

\* netaddr.EUI(raw) as a 48-bit address: the digits of raw in one of the
\* formats of eui48_str_to_int, or else the digits of the number int(raw)
EUI(raw) == eui48_value(eui48_str_to_int(raw), int(raw))

\* six octets with ":" between them
Octets(eui) ==
    IF eui.kind = "raise" THEN eui
    ELSE Return([k \in 1..17 |-> IF k % 3 = 0 THEN ":" ELSE eui.value[k - (k \div 3)]])

\* napalm.base.helpers.mac: a string that ends with ":" has its colons taken
\* out and zeros put after it up to twelve characters; the address EUI reads
\* is written as six upper-case octets with ":" between them
napalm_mac(raw) ==
    IF raw # <<>> /\ raw[Len(raw)] = ":"
    THEN Octets(EUI(SelectSeq(raw, LAMBDA c : c # ":")
                        \o [k \in 1..(12 - Len(SelectSeq(raw, LAMBDA c : c # ":"))) |-> "0"]))
    ELSE Octets(EUI(raw))

(***************************************************************************)
(* get_arp_table (dell.py:305-352)                                         *)
(***************************************************************************)
\* _process_arp_fields (dell.py:332-345); canon is self.use_canonical_interface
\* a faulty age computation that adds the minutes as if they were seconds
process_arp_fields_minutes_unscaled(canon, ip, mac, interface, mac_type, h, m, s) ==
    LET hh == int(DropLast(h))
        mm == int(DropLast(m))
        ss == int(DropLast(s))
        age == IF h = <<"n", "/", "a">> THEN -1
               ELSE hh.value * 3600 + mm.value + ss.value
        macv == napalm_mac(mac)
    IN  IF h # <<"n", "/", "a">> /\ hh.kind = "raise" THEN hh
        ELSE IF h # <<"n", "/", "a">> /\ mm.kind = "raise" THEN mm
        ELSE IF h # <<"n", "/", "a">> /\ ss.kind = "raise" THEN ss
        ELSE IF macv.kind = "raise" THEN macv
        ELSE Return([interface |-> _canonical_int(canon, interface),
                     mac |-> macv.value,
                     ip |-> ip,
                     age |-> Float(age)])

_process_arp_fields(canon, ip, mac, interface, mac_type, h, m, s) ==
    LET hh == int(DropLast(h))
        mm == int(DropLast(m))
        ss == int(DropLast(s))
        age == IF h = <<"n", "/", "a">> THEN -1
               ELSE hh.value * 3600 + mm.value * 60 + ss.value
        macv == napalm_mac(mac)
    IN  IF h # <<"n", "/", "a">> /\ hh.kind = "raise" THEN hh
        ELSE IF h # <<"n", "/", "a">> /\ mm.kind = "raise" THEN mm
        ELSE IF h # <<"n", "/", "a">> /\ ss.kind = "raise" THEN ss
        ELSE IF macv.kind = "raise" THEN macv
        ELSE Return([interface |-> _canonical_int(canon, interface),
                     mac |-> macv.value,
                     ip |-> ip,
                     age |-> Float(age)])

\* _process_arp_fields(*fields): five to seven positional arguments
apply_process_arp_fields(canon, f) ==
    IF Len(f) < 5 \/ Len(f) > 7 THEN Raise("TypeError")
    ELSE _process_arp_fields(canon, f[1], f[2], f[3], f[4], f[5],
                             IF Len(f) >= 6 THEN f[6] ELSE <<>>,
                             IF Len(f) >= 7 THEN f[7] ELSE <<>>)

\* the lines of a piece that are not the empty string
RECURSIVE non_empty_lines(_)
non_empty_lines(lines) ==
    IF lines = <<>> THEN <<>>
    ELSE IF Head(lines) = <<>> THEN non_empty_lines(Tail(lines))
    ELSE <<Head(lines)>> \o non_empty_lines(Tail(lines))

\* the comprehension of dell.py:351: the rows in order, up to the first that raises
RECURSIVE arp_entries(_, _)
arp_entries(canon, rows) ==
    IF rows = <<>> THEN Return(<<>>)
    ELSE LET e == apply_process_arp_fields(canon, split(Head(rows)))
             rest == arp_entries(canon, Tail(rows))
         IN  IF e.kind = "raise" THEN e
             ELSE IF rest.kind = "raise" THEN rest
             ELSE Return(<<e.value>> \o rest.value)

\* the parse of dell.py:348-352
parse_arp_table(canon, output) ==
    IF Cardinality(DelimiterLines(output)) < 1 THEN Raise("IndexError")
    ELSE arp_entries(canon, non_empty_lines(re_split_delimiter(output, 1)))

get_arp_table_result(dev, canon, replies) ==
    LET r == _send_command(dev, Single(Cmd("show arp")), replies) IN
    IF r.outcome.kind = "raise" THEN r
    ELSE Res(parse_arp_table(canon, r.outcome.value), r.sent)

\* what the device prints: a header, the delimiter line, one line per row
ArpHeader ==
    <<<<>>,
      <<"I", "P", " ", "A", "d", "d", "r", "e", "s", "s", " ", " ", "M", "A", "C", " ", "A", "d", "d", "r", "e", "s", "s", " ", " ", " ", " ", " ", "I", "n", "t", "e", "r", "f", "a", "c", "e", " ", "T", "y", "p", "e", " ", " ", " ", " ", "A", "g", "e">>,
      <<"-", "-", "-", "-", "-", "-", "-", "-", "-", "-", " ", " ", "-", "-", "-", "-", "-", "-", "-", "-", "-", "-", "-", "-", "-", "-", " ", " ", "-", "-", "-", "-", "-", "-", "-", "-", "-", " ", "-", "-", "-", "-", "-", "-", "-", " ", "-", "-", "-", "-", "-", "-", "-", "-", "-", "-">>>>

ArpRow(age) == <<"1", "0", ".", "0", ".", "0", ".", "1", " ", " ", " ", " ", "0", "0", "2", "5", ".", "9", "0", "c", "2", ".", "8", "8", "e", "d", " ", " ", "V", "l", "1", " ", " ", " ", " ", " ", " ", " ", "D", "y", "n", "a", "m", "i", "c", " ">> \o age
ArpRows ==
    {ArpRow(<<"2", "h", " ", "3", "0", "m", " ", "1", "5", "s">>), ArpRow(<<"2", "h", "3", "0", "m", "1", "5", "s">>), ArpRow(<<"1", "h", " ", "5", "m">>),
     ArpRow(<<"2", "h", " ", "3", "0", "m", " ", "1", "5", "s", "\r">>),
     <<"1", "0", ".", "0", ".", "0", ".", "2", " ", " ", " ", " ", "F", "4", "8", "E", ".", "3", "8", "4", "1", ".", "9", "6", "2", "8", " ", " ", "G", "i", "1", "/", "0", "/", "4", "8", " ", " ", "L", "o", "c", "a", "l", " ", " ", " ", "n", "/", "a">>,
     <<"1", "0", ".", "0", ".", "0", ".", "3", " ", " ", " ", " ", "i", "n", "c", "o", "m", "p", "l", "e", "t", "e", " ", " ", " ", " ", " ", " ", "G", "i", "1", "/", "0", "/", "2", " ", " ", " ", "D", "y", "n", "a", "m", "i", "c", " ", "0", "h", " ", "1", "m", " ", "7", "s">>,
     <<"T", "o", "t", "a", "l", " ", "E", "n", "t", "r", "i", "e", "s", ":", " ", "2">>}

ArpTexts ==
    {ArpHeader \o rows \o << <<>> >> :
        rows \in UNION {[1..n -> ArpRows] : n \in 0..MaxRows}}
        \cup {InvalidText}

get_arp_table ==
    \E replies \in [1..1 -> Replies(session, ArpTexts)] :
        LET r == get_arp_table_result(device, use_canonical_interface, replies) IN
        /\ call.op = "idle"
        /\ call' = Call("get_arp_table", <<>>)
        /\ sent' = r.sent
        /\ received' = SubSeq(replies, 1, Len(r.sent))
        /\ outcome' = r.outcome
        /\ UNCHANGED <<fields, session, opened, retrieved>>

(***************************************************************************)
(* get_lldp_neighbors (dell.py:395-411)                                    *)
(***************************************************************************)
\* a str that may be None
Str(s) == [isNone |-> FALSE, str |-> s]
None == [isNone |-> TRUE, str |-> <<>>]

\* result[iface].append(entry) on a dict kept in insertion order, as a sequence
\* of <<key, list>> pairs
dict_append(d, key, entry) ==
    IF \E k \in DOMAIN d : d[k][1] = key
    THEN [k \in DOMAIN d |-> IF d[k][1] = key THEN <<key, Append(d[k][2], entry)>> ELSE d[k]]
    ELSE Append(d, <<key, <<entry>> >>)

\* the loop of dell.py:400-410 over the lines left, result being the dict so far
RECURSIVE lldp_neighbors_loop(_, _)
lldp_neighbors_loop(lines, result) ==
    IF lines = <<>> THEN result
    ELSE LET line == Head(lines)
             iface == strip(Slice(line, 0, 10))
             portid == Slice(line, 38, 55)
             systemname == strip(Slice(line, 57, Len(line)))
         IN  IF line = <<>> THEN lldp_neighbors_loop(Tail(lines), result)
             ELSE lldp_neighbors_loop(Tail(lines),
                      dict_append(result, iface,
                          [hostname |-> IF systemname = <<>> THEN None ELSE Str(systemname),
                           port |-> portid]))

get_lldp_neighbors_result(dev, replies) ==
    LET r == _send_command(dev, Single(Cmd("show lldp remote-device all")), replies) IN
    IF r.outcome.kind = "raise" THEN r
    ELSE IF Cardinality(DelimiterLines(r.outcome.value)) < 1
         THEN Res(Raise("IndexError"), r.sent)
    ELSE Res(Return(lldp_neighbors_loop(re_split_delimiter(r.outcome.value, 1), <<>>)),
             r.sent)

LldpHeader ==
    <<<<>>,
      <<"L", "L", "D", "P", " ", "R", "e", "m", "o", "t", "e", " ", "D", "e", "v", "i", "c", "e", " ", "S", "u", "m", "m", "a", "r", "y">>,
      <<>>,
      <<"L", "o", "c", "a", "l">>,
      <<"I", "n", "t", "e", "r", "f", "a", "c", "e", " ", " ", "R", "e", "m", "I", "D", " ", " ", " ", " ", "C", "h", "a", "s", "s", "i", "s", " ", "I", "D", " ", " ", " ", " ", " ", " ", " ", " ", "P", "o", "r", "t", " ", "I", "D", " ", " ", " ", " ", " ", " ", " ", " ", " ", " ", " ", " ", "S", "y", "s", "t", "e", "m", " ", "N", "a", "m", "e">>,
      <<"-", "-", "-", "-", "-", "-", "-", "-", "-", " ", " ", "-", "-", "-", "-", "-", "-", "-", " ", " ", "-", "-", "-", "-", "-", "-", "-", "-", "-", "-", "-", "-", "-", "-", "-", "-", "-", " ", "-", "-", "-", "-", "-", "-", "-", "-", "-", "-", "-", "-", "-", "-", "-", "-", "-", "-", " ", "-", "-", "-", "-", "-", "-", "-", "-", "-", "-", "-">>>>

LldpRows ==
    {<<"G", "i", "1", "/", "0", "/", "1", " ", " ", " ", " ", "1", " ", " ", " ", " ", " ", " ", " ", " ", "F", "8", ":", "B", "1", ":", "5", "6", ":", "2", "A", ":", "3", "C", ":", "4", "0", " ", "G", "i", "1", "/", "0", "/", "2", "4", " ", " ", " ", " ", " ", " ", " ", " ", " ", " ", " ", "s", "w", " ", "c", "o", "r", "e">>,
     <<"G", "i", "1", "/", "0", "/", "1", " ", " ", " ", " ", "2", " ", " ", " ", " ", " ", " ", " ", " ", "F", "8", ":", "B", "1", ":", "5", "6", ":", "2", "A", ":", "3", "C", ":", "4", "1", " ", "T", "e", "1", "/", "0", "/", "1", " ", " ", " ", " ", " ", " ", " ", " ", " ", " ", " ", " ">>,
     <<"G", "i", "1", "/", "0", "/", "2", " ", " ", " ", " ", "3", " ", " ", " ", " ", " ", " ", " ", " ", "F", "8", ":", "B", "1", ":", "5", "6", ":", "2", "A", ":", "3", "C", ":", "4", "2", " ", "G", "i", "1", "/", "0", "/", "3", " ", " ", " ", " ", " ", " ", " ", " ", " ", " ", " ", " ", "s", "w", "2">>}

LldpTexts ==
    {LldpHeader \o rows \o << <<>> >> :
        rows \in UNION {[1..n -> LldpRows] : n \in 0..MaxRows}}
        \cup {InvalidText}

get_lldp_neighbors ==
    \E replies \in [1..1 -> Replies(session, LldpTexts)] :
        LET r == get_lldp_neighbors_result(device, replies) IN
        /\ call.op = "idle"
        /\ call' = Call("get_lldp_neighbors", <<>>)
        /\ sent' = r.sent
        /\ received' = SubSeq(replies, 1, Len(r.sent))
        /\ outcome' = r.outcome
        /\ UNCHANGED <<fields, session, opened, retrieved>>

(***************************************************************************)
(* get_lldp_neighbor_detail (dell.py:413-464)                              *)
(***************************************************************************)
\* re.search(label + '(.+)', output): the first line that holds label with at
\* least one character after it, and that rest of the line as the group
re_search_rest(output, label) ==
    LET hits == {k \in DOMAIN output :
                    /\ Occurrences(output[k], label) # {}
                    /\ Min(Occurrences(output[k], label)) + Len(label) < Len(output[k])}
    IN  IF hits = {} THEN [found |-> FALSE, group |-> <<>>]
        ELSE LET k == Min(hits)
                 p == Min(Occurrences(output[k], label))
             IN  [found |-> TRUE,
                  group |-> SubSeq(output[k], p + Len(label) + 1, Len(output[k]))]

\* the names bound in _get_lldp_neighbor_detail_iface when line 441 runs
DetailIfaceLocals ==
    {"self", "interface", "caps_map", "output", "chassis_id", "system_name",
     "port_description", "caps_supported_output", "caps_enabled_output",
     "caps_supported"}

\* _get_lldp_neighbor_detail_iface (dell.py:413-454): line 441 reads caps_maps
\* and line 443 indexes a list by a str
_get_lldp_neighbor_detail_iface(dev, interface, replies) ==
    LET r == _send_command(dev,
                 Single(CmdArg("show lldp remote-device detail %s", interface)), replies)
    IN  IF r.outcome.kind = "raise" THEN r
        ELSE IF ~re_search_rest(r.outcome.value, <<"C", "h", "a", "s", "s", "i", "s", " ", "I", "D", ":", " ">>).found
             THEN Res(Raise("AttributeError"), r.sent)
        ELSE IF "caps_maps" \notin (DetailIfaceLocals \cup ModuleNames)
             THEN Res(Raise("NameError"), r.sent)
        ELSE Res(Raise("TypeError"), r.sent)

\* the loop of dell.py:460-461 over the keys of neighs from position k on
RECURSIVE lldp_detail_loop(_, _, _, _)
lldp_detail_loop(dev, neighs, replies, k) ==
    IF k > Len(neighs) THEN Res(Return(<<>>), <<>>)
    ELSE LET d == _get_lldp_neighbor_detail_iface(dev, neighs[k][1], replies) IN
         IF d.outcome.kind = "raise" THEN d
         ELSE LET rest == lldp_detail_loop(dev, neighs,
                              SubSeq(replies, Len(d.sent) + 1, Len(replies)), k + 1)
              IN  IF rest.outcome.kind = "raise"
                  THEN Res(rest.outcome, d.sent \o rest.sent)
                  ELSE Res(Return(<<d.outcome.value>> \o rest.outcome.value),
                           d.sent \o rest.sent)

\* the names bound in get_lldp_neighbor_detail when line 464 runs
DetailLocals == {"self", "interface"}

get_lldp_neighbor_detail_result(dev, interface, replies) ==
    IF interface = <<>>
    THEN LET neighs == get_lldp_neighbors_result(dev, replies) IN
         IF neighs.outcome.kind = "raise" THEN neighs
         ELSE LET rest == lldp_detail_loop(dev, neighs.outcome.value,
                              SubSeq(replies, Len(neighs.sent) + 1, Len(replies)), 1)
              IN  Res(rest.outcome, neighs.sent \o rest.sent)
    ELSE IF "_get_lldp_neighbor_detail_iface" \notin (DetailLocals \cup ModuleNames)
         THEN Res(Raise("NameError"), <<>>)
    ELSE Res(Raise("UnboundLocalError"), <<>>)

LldpDetailText ==
    <<<<>>,
      <<"L", "L", "D", "P", " ", "R", "e", "m", "o", "t", "e", " ", "D", "e", "v", "i", "c", "e", " ", "D", "e", "t", "a", "i", "l">>,
      <<>>,
      <<"L", "o", "c", "a", "l", " ", "I", "n", "t", "e", "r", "f", "a", "c", "e", ":", " ", "G", "i", "1", "/", "0", "/", "1">>,
      <<>>,
      <<"R", "e", "m", "o", "t", "e", " ", "I", "d", "e", "n", "t", "i", "f", "i", "e", "r", ":", " ", "1">>,
      <<"C", "h", "a", "s", "s", "i", "s", " ", "I", "D", " ", "S", "u", "b", "t", "y", "p", "e", ":", " ", "M", "A", "C", " ", "A", "d", "d", "r", "e", "s", "s">>,
      <<"C", "h", "a", "s", "s", "i", "s", " ", "I", "D", ":", " ", "F", "8", ":", "B", "1", ":", "5", "6", ":", "2", "A", ":", "3", "C", ":", "4", "0">>,
      <<"P", "o", "r", "t", " ", "I", "D", ":", " ", "G", "i", "1", "/", "0", "/", "2", "4">>,
      <<"S", "y", "s", "t", "e", "m", " ", "N", "a", "m", "e", ":", " ", "s", "w", " ", "c", "o", "r", "e">>,
      <<"P", "o", "r", "t", " ", "D", "e", "s", "c", "r", "i", "p", "t", "i", "o", "n", ":", " ", "u", "p", "l", "i", "n", "k">>,
      <<>>>>

LldpDetailNoNameText ==
    <<<<>>,
      <<"L", "o", "c", "a", "l", " ", "I", "n", "t", "e", "r", "f", "a", "c", "e", ":", " ", "G", "i", "1", "/", "0", "/", "2">>,
      <<>>,
      <<"C", "h", "a", "s", "s", "i", "s", " ", "I", "D", " ", "S", "u", "b", "t", "y", "p", "e", ":", " ", "M", "A", "C", " ", "A", "d", "d", "r", "e", "s", "s">>,
      <<"C", "h", "a", "s", "s", "i", "s", " ", "I", "D", ":", " ", "F", "8", ":", "B", "1", ":", "5", "6", ":", "2", "A", ":", "3", "C", ":", "4", "2">>,
      <<"P", "o", "r", "t", " ", "I", "D", ":", " ", "G", "i", "1", "/", "0", "/", "3">>,
      <<>>>>

LldpNoDataText ==
    <<<<>>,
      <<"N", "o", " ", "L", "L", "D", "P", " ", "d", "a", "t", "a", " ", "h", "a", "s", " ", "b", "e", "e", "n", " ", "r", "e", "c", "e", "i", "v", "e", "d", " ", "o", "n", " ", "t", "h", "i", "s", " ", "i", "n", "t", "e", "r", "f", "a", "c", "e", ".">>,
      <<>>>>

LldpDetailTexts == {LldpDetailText, LldpDetailNoNameText, LldpNoDataText, InvalidText}

\* the replies to a call: to the summary command and then to detail commands
\* when no interface is given, to the one detail command otherwise
LldpDetailReplies(s, interface) ==
    IF interface = <<>>
    THEN {<<first, second>> : first \in Replies(s, LldpTexts),
                              second \in Replies(s, LldpDetailTexts)}
    ELSE {<<second>> : second \in Replies(s, LldpDetailTexts)}

get_lldp_neighbor_detail ==
    \E interface \in {<<>>, <<"G", "i", "1", "/", "0", "/", "1">>} :
        \E replies \in LldpDetailReplies(session, interface) :
            LET r == get_lldp_neighbor_detail_result(device, interface, replies) IN
            /\ call.op = "idle"
            /\ call' = Call("get_lldp_neighbor_detail", interface)
            /\ sent' = r.sent
            /\ received' = SubSeq(replies, 1, Len(r.sent))
            /\ outcome' = r.outcome
            /\ UNCHANGED <<fields, session, opened, retrieved>>

(***************************************************************************)
(* get_mac_address_table (dell.py:254-303)                                 *)
(***************************************************************************)
\* mac_type.lower() in ['management', 'static'] (dell.py:277).  The only
\* characters str.lower() turns into a letter of these two words are that
\* letter and its capital among A to Z, and it turns no character into
\* nothing, so the test holds of the words in any mix of the two cases and of
\* no other string
static(mac_type) ==
    AsciiLower(mac_type) \in {<<"m", "a", "n", "a", "g", "e", "m", "e", "n", "t">>,
                              <<"s", "t", "a", "t", "i", "c">>}

\* mac_type.lower() in ['dynamic'] (dell.py:282), of whose letters the same holds
active(mac_type) ==
    AsciiLower(mac_type) \in {<<"d", "y", "n", "a", "m", "i", "c">>}

\* _process_mac_fields (dell.py:275-295); canon is self.use_canonical_interface
\* a faulty classification that compares the type tag with 'dynamic' as it is
\* printed, without lower()
process_mac_fields_exact_dynamic(canon, vlan, mac, mac_type, interface) ==
    LET macv == napalm_mac(mac)
        vlanv == int(vlan)
    IN  IF macv.kind = "raise" THEN macv
        ELSE IF vlanv.kind = "raise" THEN vlanv
        ELSE Return([mac |-> macv.value,
                     interface |-> _canonical_int(canon, interface),
                     vlan |-> vlanv.value,
                     static |-> static(mac_type),
                     active |-> mac_type = <<"d", "y", "n", "a", "m", "i", "c">>,
                     moves |-> -1,
                     last_move |-> Float(-1)])

_process_mac_fields(canon, vlan, mac, mac_type, interface) ==
    LET macv == napalm_mac(mac)
        vlanv == int(vlan)
    IN  IF macv.kind = "raise" THEN macv
        ELSE IF vlanv.kind = "raise" THEN vlanv
        ELSE Return([mac |-> macv.value,
                     interface |-> _canonical_int(canon, interface),
                     vlan |-> vlanv.value,
                     static |-> static(mac_type),
                     active |-> active(mac_type),
                     moves |-> -1,
                     last_move |-> Float(-1)])

\* _process_mac_fields(*fields): exactly four positional arguments
apply_process_mac_fields(canon, f) ==
    IF Len(f) # 4 THEN Raise("TypeError")
    ELSE _process_mac_fields(canon, f[1], f[2], f[3], f[4])

\* the comprehension of dell.py:302: the rows in order, up to the first that raises
RECURSIVE mac_entries(_, _)
mac_entries(canon, rows) ==
    IF rows = <<>> THEN Return(<<>>)
    ELSE LET e == apply_process_mac_fields(canon, split(Head(rows)))
             rest == mac_entries(canon, Tail(rows))
         IN  IF e.kind = "raise" THEN e
             ELSE IF rest.kind = "raise" THEN rest
             ELSE Return(<<e.value>> \o rest.value)

\* re.split(r'\n\nTotal.*', piece, flags=re.M)[0]: the piece up to the first
\* empty line that a line starting with "Total" follows
re_split_total(piece) ==
    LET hits == {k \in 1..(Len(piece) - 2) :
                    piece[k + 1] = <<>> /\ StartsWith(piece[k + 2], <<"T", "o", "t", "a", "l">>)}
    IN  IF hits = {} THEN piece ELSE SubSeq(piece, 1, Min(hits))

\* the parse of dell.py:298-303
parse_mac_address_table(canon, output) ==
    IF Cardinality(DelimiterLines(output)) < 1 THEN Raise("IndexError")
    ELSE mac_entries(canon, non_empty_lines(re_split_total(re_split_delimiter(output, 1))))

get_mac_address_table_result(dev, canon, replies) ==
    LET r == _send_command(dev, Single(Cmd("show mac address-table")), replies) IN
    IF r.outcome.kind = "raise" THEN r
    ELSE Res(parse_mac_address_table(canon, r.outcome.value), r.sent)

MacHeader ==
    <<<<>>,
      <<"A", "g", "i", "n", "g", " ", "t", "i", "m", "e", " ", "i", "s", " ", "3", "0", "0", " ", "S", "e", "c">>,
      <<>>,
      <<"V", "l", "a", "n", " ", " ", " ", " ", " ", "M", "a", "c", " ", "A", "d", "d", "r", "e", "s", "s", " ", " ", " ", " ", " ", " ", " ", " ", " ", " ", " ", "T", "y", "p", "e", " ", " ", " ", " ", " ", " ", " ", " ", "P", "o", "r", "t">>,
      <<"-", "-", "-", "-", "-", "-", "-", "-", " ", "-", "-", "-", "-", "-", "-", "-", "-", "-", "-", "-", "-", "-", "-", "-", "-", "-", "-", "-", "-", "-", " ", "-", "-", "-", "-", "-", "-", "-", "-", "-", "-", "-", " ", "-", "-", "-", "-", "-", "-", "-", "-", "-">>>>

MacTrailer ==
    <<<<>>,
      <<"T", "o", "t", "a", "l", " ", "M", "A", "C", " ", "A", "d", "d", "r", "e", "s", "s", "e", "s", " ", "i", "n", " ", "u", "s", "e", ":", " ", "2">>,
      <<>>>>

MacRow(mac_type) == <<"1", " ", " ", " ", " ", " ", " ", " ", " ", "0", "0", "2", "5", ".", "9", "0", "C", "2", ".", "8", "8", "E", "D", " ", " ", " ", " ", " ", " ", " ", " ">> \o mac_type \o <<" ", " ", "G", "i", "1", "/", "0", "/", "4", "8">>
MacRows ==
    {MacRow(<<"D", "y", "n", "a", "m", "i", "c">>), MacRow(<<"d", "y", "n", "a", "m", "i", "c">>), MacRow(<<"S", "T", "A", "T", "I", "C">>), MacRow(<<"O", "t", "h", "e", "r">>),
     <<"1", "0", " ", " ", " ", " ", " ", " ", " ", "F", "4", "8", "E", ".", "3", "8", "4", "1", ".", "9", "6", "2", "8", " ", " ", " ", " ", " ", " ", " ", " ", "M", "a", "n", "a", "g", "e", "m", "e", "n", "t", " ", " ", "V", "l", "1">>}

MacTexts ==
    {MacHeader \o rows \o MacTrailer :
        rows \in UNION {[1..n -> MacRows] : n \in 0..MaxRows}}
        \cup {InvalidText}

\* a faulty get_mac_address_table that keeps a note of the call in a driver field
get_mac_address_table_noting_call ==
    \E replies \in [1..1 -> Replies(session, MacTexts)] :
        LET r == get_mac_address_table_result(device, use_canonical_interface, replies) IN
        /\ call.op = "idle"
        /\ call' = Call("get_mac_address_table", <<>>)
        /\ sent' = r.sent
        /\ received' = SubSeq(replies, 1, Len(r.sent))
        /\ outcome' = r.outcome
        /\ config_replace' = TRUE
        /\ UNCHANGED <<transport, candidate_cfg, merge_cfg, rollback_cfg,
                       inline_transfer, dest_file_system, auto_rollback_on_error,
                       auto_file_prompt, netmiko_optional_args, port, device,
                       profile, use_canonical_interface, session, opened, retrieved>>

get_mac_address_table ==
    \E replies \in [1..1 -> Replies(session, MacTexts)] :
        LET r == get_mac_address_table_result(device, use_canonical_interface, replies) IN
        /\ call.op = "idle"
        /\ call' = Call("get_mac_address_table", <<>>)
        /\ sent' = r.sent
        /\ received' = SubSeq(replies, 1, Len(r.sent))
        /\ outcome' = r.outcome
        /\ UNCHANGED <<fields, session, opened, retrieved>>

(***************************************************************************)
(* get_environment (dell.py:207-252)                                       *)
(***************************************************************************)
\* a local variable: not yet assigned, or bound to a value
Unbound == [bound |-> FALSE, val |-> 0]
Bound(v) == [bound |-> TRUE, val |-> v]

\* line.split()[1] as an int, for the 'alloc' and 'free' lines
second_field_int(line) ==
    IF Len(split(line)) < 2 THEN Raise("IndexError") ELSE int(split(line)[2])

\* the characters str.splitlines() breaks a line at besides "\n" (U+2028 and
\* U+2029 are outside the alphabet of this module)
LineBreaks == {"\r", "\f", "", "", "", "", ""}

\* the pieces of a line between its line-break characters, one more than
\* the breaks it holds
Segments(line) ==
    LET breaks == {k \in DOMAIN line : line[k] \in LineBreaks}
        n == Cardinality(breaks)
        break(i) == CHOOSE k \in breaks : Cardinality({j \in breaks : j < k}) = i - 1
        start(i) == IF i = 1 THEN 1 ELSE break(i - 1) + 1
        end(i) == IF i = n + 1 THEN Len(line) ELSE break(i) - 1
    IN  [i \in 1..(n + 1) |-> SubSeq(line, start(i), end(i))]

\* output.splitlines() (dell.py:224) of a text held as its "\n"-separated
\* lines: "\r\n" is one break, and a break at the very end of the text opens
\* no further line
RECURSIVE splitlines(_)
splitlines(text) ==
    LET line == text[1]
        segments == Segments(line)
    IN  IF Len(text) = 1
        THEN IF segments[Len(segments)] = <<>> THEN DropLast(segments) ELSE segments
        ELSE IF line # <<>> /\ line[Len(line)] = "\r"
             THEN Segments(DropLast(line)) \o splitlines(Tail(text))
        ELSE segments \o splitlines(Tail(text))

\* a faulty scan that has no break: it goes on to the lines after the
\* 'Total CPU Utilization' line
RECURSIVE environment_loop_without_break(_, _)
environment_loop_without_break(lines, env) ==
    IF lines = <<>> THEN Return(env)
    ELSE LET line == Head(lines)
             oneminute == IF Len(split(line)) < 5 THEN Raise("IndexError")
                          ELSE float(DropLast(split(line)[5]))
             mem == second_field_int(line)
             used == IF Contains(line, <<"a", "l", "l", "o", "c">>) THEN Bound(mem.value) ELSE env.used_mem
             avail == IF Contains(line, <<"f", "r", "e", "e">>) THEN Bound(mem.value) ELSE env.avail_mem
         IN  IF Contains(line, <<"T", "o", "t", "a", "l", " ", "C", "P", "U", " ", "U", "t", "i", "l", "i", "z", "a", "t", "i", "o", "n">>)
             THEN IF oneminute.kind = "raise" THEN oneminute
                  ELSE environment_loop_without_break(Tail(lines),
                           [env EXCEPT !.usage = oneminute.value])
             ELSE IF (Contains(line, <<"a", "l", "l", "o", "c">>) \/ Contains(line, <<"f", "r", "e", "e">>))
                      /\ mem.kind = "raise"
                  THEN mem
             ELSE environment_loop_without_break(Tail(lines),
                      [usage |-> env.usage, used_mem |-> used, avail_mem |-> avail])

\* the loop of dell.py:224-233 over the lines left; env holds %usage, used_mem
\* and avail_mem as they stand
RECURSIVE environment_loop(_, _)
environment_loop(lines, env) ==
    IF lines = <<>> THEN Return(env)
    ELSE LET line == Head(lines)
             oneminute == IF Len(split(line)) < 5 THEN Raise("IndexError")
                          ELSE float(DropLast(split(line)[5]))
             mem == second_field_int(line)
             used == IF Contains(line, <<"a", "l", "l", "o", "c">>) THEN Bound(mem.value) ELSE env.used_mem
             avail == IF Contains(line, <<"f", "r", "e", "e">>) THEN Bound(mem.value) ELSE env.avail_mem
         IN  IF Contains(line, <<"T", "o", "t", "a", "l", " ", "C", "P", "U", " ", "U", "t", "i", "l", "i", "z", "a", "t", "i", "o", "n">>)
             THEN IF oneminute.kind = "raise" THEN oneminute
                  ELSE Return([env EXCEPT !.usage = oneminute.value])
             ELSE IF (Contains(line, <<"a", "l", "l", "o", "c">>) \/ Contains(line, <<"f", "r", "e", "e">>))
                      /\ mem.kind = "raise"
                  THEN mem
             ELSE environment_loop(Tail(lines),
                      [usage |-> env.usage, used_mem |-> used, avail_mem |-> avail])

get_environment_result(dev, replies) ==
    LET cpu == _send_command(dev, Single(Cmd("show proc cpu")), replies)
        env == environment_loop(splitlines(cpu.outcome.value),
                   [usage |-> Float(0), used_mem |-> Unbound, avail_mem |-> Unbound])
        temp == _send_command(dev, Single(Cmd("show system temperature")),
                    SubSeq(replies, Len(cpu.sent) + 1, Len(replies)))
    IN  IF cpu.outcome.kind = "raise" THEN cpu
        ELSE IF env.kind = "raise" THEN Res(env, cpu.sent)
        ELSE IF ~env.value.used_mem.bound \/ ~env.value.avail_mem.bound
             THEN Res(Raise("UnboundLocalError"), cpu.sent)
        ELSE IF temp.outcome.kind = "raise" THEN Res(temp.outcome, cpu.sent \o temp.sent)
        ELSE Res(Return(
                 [cpu |-> (0 :> ("%usage" :> env.value.usage)),
                  memory |-> [used_ram |-> env.value.used_mem.val,
                              available_ram |->
                                  env.value.used_mem.val + env.value.avail_mem.val],
                  temperature |-> [invalid |-> [is_alert |-> FALSE, is_critical |-> FALSE,
                                                temperature |-> Float(-1)]],
                  power |-> [invalid |-> [status |-> TRUE, output |-> Float(-1),
                                          capacity |-> Float(-1)]],
                  fans |-> [invalid |-> [status |-> TRUE]]]),
                 cpu.sent \o temp.sent)

MemoryLines ==
    <<<<>>,
      <<"M", "e", "m", "o", "r", "y", " ", "U", "t", "i", "l", "i", "z", "a", "t", "i", "o", "n", " ", "R", "e", "p", "o", "r", "t">>,
      <<>>,
      <<"s", "t", "a", "t", "u", "s", " ", " ", " ", " ", " ", " ", "b", "y", "t", "e", "s">>,
      <<"-", "-", "-", "-", "-", "-", " ", "-", "-", "-", "-", "-", "-", "-", "-", "-", "-">>,
      <<" ", " ", "f", "r", "e", "e", " ", " ", "5", "0", "0">>,
      <<" ", "a", "l", "l", "o", "c", " ", " ", "1", "0", "0", "0">>,
      <<>>>>

TotalLines ==
    <<<<"C", "P", "U", " ", "U", "t", "i", "l", "i", "z", "a", "t", "i", "o", "n", ":">>,
      <<>>,
      <<"T", "o", "t", "a", "l", " ", "C", "P", "U", " ", "U", "t", "i", "l", "i", "z", "a", "t", "i", "o", "n", " ", " ", " ", "9", ".", "2", "6", "%", " ", " ", "9", ".", "5", "0", "%", " ", " ", "9", ".", "7", "2", "%">>,
      <<>>>>

CpuTexts ==
    {MemoryLines \o TotalLines,
     TotalLines \o MemoryLines,
     MemoryLines,
     <<<<>>,
      <<" ", "a", "l", "l", "o", "c", " ", " ", "1", "0", "0", "0">>,
      <<>>,
      <<"T", "o", "t", "a", "l", " ", "C", "P", "U", " ", "U", "t", "i", "l", "i", "z", "a", "t", "i", "o", "n", " ", " ", " ", "9", ".", "2", "6", "%", " ", " ", "9", ".", "5", "0", "%", " ", " ", "9", ".", "7", "2", "%">>,
      <<>>>>,
     <<<<>>,
      <<" ", "a", "l", "l", "o", "c", " ", " ", "2", "9", "1", "9", "5", "8", "7", "8", "4">>,
      <<" ", " ", "f", "r", "e", "e", " ", " ", "5", "2", "7", "3", "9", "6", "8", "6", "4">>,
      <<"T", "o", "t", "a", "l", " ", "C", "P", "U", " ", "U", "t", "i", "l", "i", "z", "a", "t", "i", "o", "n", " ", "9", "%">>,
      <<>>>>,
     <<<<>>,
      <<" ", "a", "l", "l", "o", "c", " ", " ", "1", "_", "0", "0", "0", "\r">>,
      <<" ", " ", "f", "r", "e", "e", " ", " ", "5", "0", "0", "\r">>,
      <<"T", "o", "t", "a", "l", " ", "C", "P", "U", " ", "U", "t", "i", "l", "i", "z", "a", "t", "i", "o", "n", " ", " ", " ", "9", ".", "2", "6", "%", " ", " ", "9", ".", "5", "0", "%", " ", " ", "9", ".", "0", "0", "%", "\r">>,
      <<>>>>,
     <<<<>>,
      <<" ", "a", "l", "l", "o", "c", " ", " ", "۳", "۴">>,
      <<" ", " ", "f", "r", "e", "e", " ", " ", "৩">>,
      <<"T", "o", "t", "a", "l", " ", "C", "P", "U", " ", "U", "t", "i", "l", "i", "z", "a", "t", "i", "o", "n", " ", " ", " ", "9", ".", "2", "6", "%", " ", " ", "۹", ".", "5", "%", " ", " ", "9", ".", "0", "0", "%">>,
      <<>>>>,
     InvalidText}

TemperatureTexts ==
    {<<<<>>,
      <<"T", "e", "m", "p", "e", "r", "a", "t", "u", "r", "e", " ", "S", "e", "n", "s", "o", "r", "s", ":">>,
      <<"1", " ", " ", " ", " ", "1", " ", " ", " ", " ", " ", "M", "A", "C", " ", " ", " ", " ", " ", " ", " ", " ", " ", " ", "3", "3", " ", " ", " ", " ", " ", " ", " ", " ", "G", "o", "o", "d">>,
      <<>>>>, InvalidText}

get_environment ==
    \E first \in Replies(session, CpuTexts), second \in Replies(session, TemperatureTexts) :
        LET r == get_environment_result(device, <<first, second>>) IN
        /\ call.op = "idle"
        /\ call' = Call("get_environment", <<>>)
        /\ sent' = r.sent
        /\ received' = SubSeq(<<first, second>>, 1, Len(r.sent))
        /\ outcome' = r.outcome
        /\ UNCHANGED <<fields, session, opened, retrieved>>

(***************************************************************************)
(* get_ntp_peers (dell.py:466-488)                                         *)
(***************************************************************************)
\* entries[i] = {} on a dict kept in insertion order, as the sequence of its keys
dict_set(keys, key) ==
    IF \E k \in DOMAIN keys : keys[k] = key THEN keys ELSE Append(keys, key)

\* re.findall('Host Address:\s(\S+)', output) from offset from of line k on: the
\* label, one whitespace character (a space, a tab or the newline that ends the
\* line), then the whitespace-free run that follows, which is the group
RECURSIVE ntp_findall(_, _, _)
ntp_findall(output, k, from) ==
    LET label == <<"H", "o", "s", "t", " ", "A", "d", "d", "r", "e", "s", "s", ":">>
        line == output[k]
        inline == {p \in Occurrences(line, label) :
                      /\ p >= from
                      /\ p + Len(label) + 2 <= Len(line)
                      /\ IsSpace(line[p + Len(label) + 1])
                      /\ ~IsSpace(line[p + Len(label) + 2])}
        atend == {p \in Occurrences(line, label) :
                      /\ p >= from
                      /\ p + Len(label) = Len(line)
                      /\ k < Len(output)
                      /\ output[k + 1] # <<>>
                      /\ ~IsSpace(output[k + 1][1])}
    IN  IF k > Len(output) THEN <<>>
        ELSE IF inline # {}
        THEN LET p == Min(inline)
                 group == FirstToken(SubSeq(line, p + Len(label) + 2, Len(line)))
             IN  <<group>> \o ntp_findall(output, k, p + Len(label) + 1 + Len(group))
        ELSE IF atend # {}
        THEN LET group == FirstToken(output[k + 1])
             IN  <<group>> \o ntp_findall(output, k + 1, Len(group))
        ELSE ntp_findall(output, k + 1, 0)

\* the loop of dell.py:486-487
RECURSIVE ntp_entries(_, _)
ntp_entries(hosts, entries) ==
    IF hosts = <<>> THEN entries
    ELSE ntp_entries(Tail(hosts), dict_set(entries, Head(hosts)))

get_ntp_peers_result(dev, replies) ==
    LET r == _send_command(dev, Single(Cmd("show sntp server")), replies) IN
    IF r.outcome.kind = "raise" THEN r
    ELSE Res(Return(ntp_entries(ntp_findall(r.outcome.value, 1, 0), <<>>)), r.sent)

NtpTexts ==
    {<<<<>>,
      <<"S", "e", "r", "v", "e", "r", " ", "H", "o", "s", "t", " ", "A", "d", "d", "r", "e", "s", "s", ":", " ", "1", "0", ".", "0", ".", "0", ".", "5">>,
      <<"S", "e", "r", "v", "e", "r", " ", "T", "y", "p", "e", ":", " ", "I", "P", "v", "4">>,
      <<>>,
      <<"H", "o", "s", "t", " ", "A", "d", "d", "r", "e", "s", "s", ":", " ", "1", "0", ".", "0", ".", "0", ".", "6">>,
      <<"S", "t", "a", "t", "u", "s", ":", " ", "U", "p">>,
      <<>>>>,
     <<<<>>,
      <<"H", "o", "s", "t", " ", "A", "d", "d", "r", "e", "s", "s", ":", " ", "1", "0", ".", "0", ".", "0", ".", "5">>,
      <<"H", "o", "s", "t", " ", "A", "d", "d", "r", "e", "s", "s", ":">>,
      <<"1", "0", ".", "0", ".", "0", ".", "5", " ", "H", "o", "s", "t", " ", "A", "d", "d", "r", "e", "s", "s", ":", " ", " ", "1", "0", ".", "0", ".", "0", ".", "7">>,
      <<>>>>,
     <<<<>>,
      <<"N", "o", " ", "S", "N", "T", "P", " ", "s", "e", "r", "v", "e", "r", "s", " ", "c", "o", "n", "f", "i", "g", "u", "r", "e", "d", ".">>,
      <<>>>>,
     InvalidText}

get_ntp_peers ==
    \E replies \in [1..1 -> Replies(session, NtpTexts)] :
        LET r == get_ntp_peers_result(device, replies) IN
        /\ call.op = "idle"
        /\ call' = Call("get_ntp_peers", <<>>)
        /\ sent' = r.sent
        /\ received' = SubSeq(replies, 1, Len(r.sent))
        /\ outcome' = r.outcome
        /\ UNCHANGED <<fields, session, opened, retrieved>>

(***************************************************************************)
(* get_interfaces (dell.py:354-392)                                        *)
(***************************************************************************)
\* re.findall("!\ninterface (.*)\n((.|\n)*?)\nexit", config_raw) from line from
\* on: a line that ends with "!", a line "interface <name>", then the fewest
\* lines (at least one) up to a line that starts with "exit"; <<name, body>>
RECURSIVE config_findall(_, _)
config_findall(config_raw, from) ==
    LET n == Len(config_raw)
        starts == {k \in from..(n - 3) :
                      /\ config_raw[k] # <<>>
                      /\ config_raw[k][Len(config_raw[k])] = "!"
                      /\ StartsWith(config_raw[k + 1], <<"i", "n", "t", "e", "r", "f", "a", "c", "e", " ">>)
                      /\ \E j \in (k + 3)..n : StartsWith(config_raw[j], <<"e", "x", "i", "t">>)}
    IN  IF starts = {} THEN <<>>
        ELSE LET k == Min(starts)
                 j == Min({i \in (k + 3)..n : StartsWith(config_raw[i], <<"e", "x", "i", "t">>)})
             IN  << <<SubSeq(config_raw[k + 1], 11, Len(config_raw[k + 1])),
                      SubSeq(config_raw, k + 2, j - 1)>> >>
                     \o config_findall(config_raw, j)

\* re.search('description: "(.+?)"', iface_config): the group of the first match
description_search(iface_config) ==
    LET label == <<"d", "e", "s", "c", "r", "i", "p", "t", "i", "o", "n", ":", " ", "\"">>
        closes(line, p) == {q \in (p + Len(label) + 2)..Len(line) : line[q] = "\""}
        hits == {k \in DOMAIN iface_config :
                    \E p \in Occurrences(iface_config[k], label) :
                        closes(iface_config[k], p) # {}}
    IN  IF hits = {} THEN [found |-> FALSE, group |-> <<>>]
        ELSE LET line == iface_config[Min(hits)]
                 p == Min({o \in Occurrences(line, label) : closes(line, o) # {}})
             IN  [found |-> TRUE,
                  group |-> SubSeq(line, p + Len(label) + 1, Min(closes(line, p)) - 1)]

\* re.search('((no )?shutdown)', iface_config): the group of the first match
shutdown_search(iface_config) ==
    LET hits == {k \in DOMAIN iface_config :
                    Occurrences(iface_config[k], <<"s", "h", "u", "t", "d", "o", "w", "n">>) # {}}
    IN  IF hits = {} THEN [found |-> FALSE, group |-> <<>>]
        ELSE LET line == iface_config[Min(hits)]
                 p == Min(Occurrences(line, <<"s", "h", "u", "t", "d", "o", "w", "n">>))
             IN  IF p >= 3 /\ SubSeq(line, p - 2, p) = <<"n", "o", " ">>
                 THEN [found |-> TRUE, group |-> <<"n", "o", " ", "s", "h", "u", "t", "d", "o", "w", "n">>]
                 ELSE [found |-> TRUE, group |-> <<"s", "h", "u", "t", "d", "o", "w", "n">>]

\* config_for_iface (dell.py:355-366) from config k on: <<descr, enabled>>
RECURSIVE config_for_iface(_, _, _)
config_for_iface(iface, configs, k) ==
    IF k > Len(configs) THEN <<<<>>, TRUE>>
    ELSE IF configs[k][1] = iface
    THEN LET d == description_search(configs[k][2])
             m == shutdown_search(configs[k][2])
         IN  <<IF d.found THEN d.group ELSE <<>>,
               ~(m.found /\ m.group = <<"s", "h", "u", "t", "d", "o", "w", "n">>)>>
    ELSE config_for_iface(iface, configs, k + 1)

\* str.split('\n\n') from line s on: the text is cut at each empty line that is
\* neither the first line of a piece nor the last line of the text
RECURSIVE split_blank(_, _)
split_blank(text, s) ==
    LET cuts == {t \in s..(Len(text) - 2) : text[t + 1] = <<>>} IN
    IF cuts = {} THEN <<SubSeq(text, s, Len(text))>>
    ELSE <<SubSeq(text, s, Min(cuts))>> \o split_blank(text, Min(cuts) + 2)

\* re.search(label + '\.+\s(.*)\n', iface): the label, one or more dots, one
\* whitespace character (which may be the newline), the rest of the line as the
\* group, and a newline after it
dotted_search(iface, label) ==
    LET dots(line, p) ==
            Min({e \in (p + Len(label))..Len(line) :
                    e = Len(line) \/ line[e + 1] # "."}) - (p + Len(label))
        after(line, p) == p + Len(label) + dots(line, p)
        inline(k, p) ==
            /\ dots(iface[k], p) >= 1
            /\ after(iface[k], p) < Len(iface[k])
            /\ IsSpace(iface[k][after(iface[k], p) + 1])
            /\ k < Len(iface)
        atend(k, p) ==
            /\ dots(iface[k], p) >= 1
            /\ after(iface[k], p) = Len(iface[k])
            /\ k + 1 < Len(iface)
        hits == {k \in DOMAIN iface :
                    \E p \in Occurrences(iface[k], label) : inline(k, p) \/ atend(k, p)}
    IN  IF hits = {} THEN [found |-> FALSE, group |-> <<>>]
        ELSE LET k == Min(hits)
                 p == Min({o \in Occurrences(iface[k], label) : inline(k, o) \/ atend(k, o)})
             IN  [found |-> TRUE,
                  group |-> IF inline(k, p)
                            THEN SubSeq(iface[k], after(iface[k], p) + 2, Len(iface[k]))
                            ELSE iface[k + 1]]

\* one pass of the loop body of dell.py:377-391; interned tells whether the
\* interpreter hands out the literal 'Up' itself for the status it matched, which
\* is what `status is 'Up'` asks
interface_entry(canon, interned, iface, config_ifaces) ==
    LET entry(name, speed, mac, status) ==
            LET values(config, speedv, macv) ==
                    IF speedv.kind = "raise" THEN speedv
                    ELSE IF macv.kind = "raise" THEN macv
                    ELSE Return(<<_canonical_int(canon, name.group),
                                  [is_up |-> interned /\ status.group = <<"U", "p">>,
                                   is_enable |-> config[2],
                                   description |-> config[1],
                                   last_flapped |-> -1,
                                   speed |-> speedv.value,
                                   mac_address |-> macv.value]>>)
            IN  IF ~name.found \/ ~speed.found \/ ~mac.found \/ ~status.found
                THEN Raise("AttributeError")
                ELSE values(config_for_iface(name.group, config_ifaces, 1),
                            IF speed.group = <<"U", "n", "k", "n", "o", "w", "n">>
                            THEN Return(0) ELSE int(speed.group),
                            napalm_mac(mac.group))
    IN  entry(dotted_search(iface, <<"I", "n", "t", "e", "r", "f", "a", "c", "e", " ", "N", "a", "m", "e", " ", ":", " ">>),
              dotted_search(iface, <<"P", "o", "r", "t", " ", "S", "p", "e", "e", "d", " ", ":", " ">>),
              dotted_search(iface, <<"L", "3", " ", "M", "A", "C", " ", "A", "d", "d", "r", "e", "s", "s">>),
              dotted_search(iface, <<"L", "i", "n", "k", " ", "S", "t", "a", "t", "u", "s", " ", ":", " ">>))

\* the loop of dell.py:374-391 over the blocks left
RECURSIVE interfaces_loop(_, _, _, _)
interfaces_loop(canon, interned, ifaces, config_ifaces) ==
    IF ifaces = <<>> THEN Return(<<>>)
    ELSE IF Head(ifaces) = EmptyText
    THEN interfaces_loop(canon, interned, Tail(ifaces), config_ifaces)
    ELSE LET e == interface_entry(canon, interned, Head(ifaces), config_ifaces) IN
         IF e.kind = "raise" THEN e
         ELSE LET rest == interfaces_loop(canon, interned, Tail(ifaces), config_ifaces) IN
              IF rest.kind = "raise" THEN rest
              ELSE Return(<<e.value>> \o rest.value)

get_interfaces_result(dev, canon, interned, replies) ==
    LET config_raw == _send_command(dev, Single(Cmd("show running-config")), replies)
        ifaces_raw == _send_command(dev, Single(Cmd("show interfaces")),
                          SubSeq(replies, Len(config_raw.sent) + 1, Len(replies)))
    IN  IF config_raw.outcome.kind = "raise" THEN config_raw
        ELSE IF ifaces_raw.outcome.kind = "raise"
             THEN Res(ifaces_raw.outcome, config_raw.sent \o ifaces_raw.sent)
        ELSE Res(interfaces_loop(canon, interned,
                                 split_blank(ifaces_raw.outcome.value, 1),
                                 config_findall(config_raw.outcome.value, 1)),
                 config_raw.sent \o ifaces_raw.sent)

InterfacesText ==
    <<<<>>,
      <<"I", "n", "t", "e", "r", "f", "a", "c", "e", " ", "N", "a", "m", "e", " ", ":", " ", ".", ".", ".", ".", ".", " ", "G", "i", "1", "/", "0", "/", "1">>,
      <<"L", "i", "n", "k", " ", "S", "t", "a", "t", "u", "s", " ", ":", " ", ".", ".", ".", ".", ".", ".", ".", ".", " ", "U", "p">>,
      <<"P", "o", "r", "t", " ", "S", "p", "e", "e", "d", " ", ":", " ", ".", ".", ".", ".", ".", ".", ".", ".", ".", " ", "1", "0", "0", "0">>,
      <<"L", "3", " ", "M", "A", "C", " ", "A", "d", "d", "r", "e", "s", "s", ".", ".", ".", ".", ".", ".", ".", ".", " ", "F", "4", "8", "E", ".", "3", "8", "4", "1", ".", "9", "6", "2", "A">>,
      <<"N", "a", "t", "i", "v", "e", " ", "V", "L", "A", "N", " ", ":", " ", ".", ".", ".", ".", ".", ".", ".", ".", " ", "1">>,
      <<>>,
      <<"I", "n", "t", "e", "r", "f", "a", "c", "e", " ", "N", "a", "m", "e", " ", ":", " ", ".", ".", ".", ".", ".", " ", "G", "i", "1", "/", "0", "/", "2">>,
      <<"L", "i", "n", "k", " ", "S", "t", "a", "t", "u", "s", " ", ":", " ", ".", ".", ".", ".", ".", ".", ".", ".", " ", "D", "o", "w", "n">>,
      <<"P", "o", "r", "t", " ", "S", "p", "e", "e", "d", " ", ":", " ", ".", ".", ".", ".", ".", ".", ".", ".", ".", " ", "U", "n", "k", "n", "o", "w", "n">>,
      <<"L", "3", " ", "M", "A", "C", " ", "A", "d", "d", "r", "e", "s", "s", ".", ".", ".", ".", ".", ".", ".", ".", " ", "F", "4", "8", "E", ".", "3", "8", "4", "1", ".", "9", "6", "2", "B">>,
      <<"N", "a", "t", "i", "v", "e", " ", "V", "L", "A", "N", " ", ":", " ", ".", ".", ".", ".", ".", ".", ".", ".", " ", "1">>,
      <<>>>>

InterfacesShortText ==
    <<<<>>,
      <<"I", "n", "t", "e", "r", "f", "a", "c", "e", " ", "N", "a", "m", "e", " ", ":", " ", ".", ".", ".", ".", ".", " ", "G", "i", "1", "/", "0", "/", "1">>,
      <<"L", "i", "n", "k", " ", "S", "t", "a", "t", "u", "s", " ", ":", " ", ".", ".", ".", ".", ".", ".", ".", ".", " ", "U", "p">>,
      <<"P", "o", "r", "t", " ", "S", "p", "e", "e", "d", " ", ":", " ", ".", ".", ".", ".", ".", ".", ".", ".", ".", " ", "1", "0", "0", "0">>,
      <<"L", "3", " ", "M", "A", "C", " ", "A", "d", "d", "r", "e", "s", "s", ".", ".", ".", ".", ".", ".", ".", ".", " ", "F", "4", "8", "E", ".", "3", "8", "4", "1", ".", "9", "6", "2", "A">>,
      <<>>,
      <<>>>>

\* one interface whose speed the device wrote as 1_000 and ended with a
\* carriage return
InterfacesReturnText ==
    <<<<>>,
      <<"I", "n", "t", "e", "r", "f", "a", "c", "e", " ", "N", "a", "m", "e", " ", ":", " ", ".", ".", ".", ".", ".", " ", "G", "i", "1", "/", "0", "/", "1">>,
      <<"L", "i", "n", "k", " ", "S", "t", "a", "t", "u", "s", " ", ":", " ", ".", ".", ".", ".", ".", ".", ".", ".", " ", "U", "p">>,
      <<"P", "o", "r", "t", " ", "S", "p", "e", "e", "d", " ", ":", " ", ".", ".", ".", ".", ".", ".", ".", ".", ".", " ", "1", "_", "0", "0", "0", "\r">>,
      <<"L", "3", " ", "M", "A", "C", " ", "A", "d", "d", "r", "e", "s", "s", ".", ".", ".", ".", ".", ".", ".", ".", " ", "F", "4", "8", "E", ".", "3", "8", "4", "1", ".", "9", "6", "2", "A">>,
      <<"N", "a", "t", "i", "v", "e", " ", "V", "L", "A", "N", " ", ":", " ", ".", ".", ".", ".", ".", ".", ".", ".", " ", "1">>,
      <<>>>>

InterfacesTexts ==
    {InterfacesText, InterfacesShortText, InterfacesReturnText, InvalidText}

get_interfaces ==
    \E first \in Replies(session, {RunningConfigText, InvalidText}),
       second \in Replies(session, InterfacesTexts), interned \in BOOLEAN :
        LET r == get_interfaces_result(device, use_canonical_interface, interned,
                                       <<first, second>>) IN
        /\ call.op = "idle"
        /\ call' = Call("get_interfaces", <<>>)
        /\ sent' = r.sent
        /\ received' = SubSeq(<<first, second>>, 1, Len(r.sent))
        /\ outcome' = r.outcome
        /\ UNCHANGED <<fields, session, opened, retrieved>>

(***************************************************************************)
(* The caller has the outcome of the call; the driver awaits the next call *)
(* (the calls are blocking and made one at a time).                        *)
(***************************************************************************)
return_to_caller ==
    /\ call.op # "idle"
    /\ call' = Idle
    /\ sent' = <<>>
    /\ received' = <<>>
    /\ outcome' = Return("None")
    /\ retrieved' = (retrieved \/ call.op \in Retrievals)
    /\ UNCHANGED <<fields, session, opened>>

(***************************************************************************)
(* The driver: any call, one after the other.                              *)
(***************************************************************************)
Next ==
    \/ return_to_caller
    \/ open
    \/ close
    \/ is_alive
    \/ call_send_command
    \/ get_config
    \/ get_arp_table
    \/ get_mac_address_table
    \/ get_environment
    \/ get_interfaces
    \/ get_lldp_neighbors
    \/ get_lldp_neighbor_detail
    \/ get_ntp_peers

Spec == Init /\ [][Next]_vars

(***************************************************************************)
(* Properties of the driver.                                               *)
(***************************************************************************)
\* the reply is a text that does not hold the invalid-command marker
Accepted(reply) == reply.exc = "" /\ ~TextContains(reply.text, InvalidMarker)
\* the reply is a text that holds the invalid-command marker
Rejected(reply) == reply.exc = "" /\ TextContains(reply.text, InvalidMarker)

\* C1: is_alive() on a driver on which open() was never called returns
\* exactly {'is_alive': False}, raises nothing and sends nothing, whatever the
\* transport selector and the constructor options.
C1_is_alive_before_open ==
    (call.op = "is_alive" /\ ~opened) =>
        /\ outcome.kind = "return"
        /\ outcome.value = [is_alive |-> FALSE]
        /\ sent = <<>>

\* is_alive() has answered on a telnet driver, built with a port option, that
\* was never opened
C1_witness ==
    /\ call.op = "is_alive"
    /\ ~opened
    /\ transport = "telnet"
    /\ port = 2222
    /\ outcome.kind = "return"

\* C2: given a list of candidates, _send_command sends them one at a time in
\* list order, stops at the first candidate whose response does not hold the
\* invalid-command marker, returns exactly that response, and sends no
\* candidate that comes after it.
C2_first_accepted_candidate ==
    (call.op = "_send_command" /\ call.arg.isList) =>
        /\ Len(sent) <= Len(call.arg.cmds)
        /\ sent = SubSeq(call.arg.cmds, 1, Len(sent))
        /\ \A k \in 1..(Len(sent) - 1) : Rejected(received[k])
        /\ \A k \in 1..Len(sent) :
               Accepted(received[k]) =>
                   /\ k = Len(sent)
                   /\ outcome.kind = "return"
                   /\ outcome.value = received[k].text

\* the second of three candidates was accepted after the first was rejected, and
\* the third was never sent
C2_witness ==
    /\ call.op = "_send_command"
    /\ call.arg.isList
    /\ Len(call.arg.cmds) = 3
    /\ Len(sent) = 2
    /\ Rejected(received[1])
    /\ Accepted(received[2])
    /\ outcome = Return(VersionText)

\* C3 as stated: when every candidate of the list is rejected by the device as
\* invalid, the dispatcher has sent each candidate once in order and returns
\* the response to the last one without raising, for every candidate list of
\* any length.
C3_any_length ==
    (/\ call.op = "_send_command"
     /\ call.arg.isList
     /\ device # "None"
     /\ \A k \in 1..Len(received) : Rejected(received[k])) =>
        /\ sent = call.arg.cmds
        /\ outcome.kind = "return"
        /\ Len(received) >= 1 => outcome.value = received[Len(received)].text

\* C3, amended: the same for every candidate list that is not empty; for the
\* empty list nothing is sent and the dispatcher raises UnboundLocalError, no
\* response having been bound.
C3_non_empty_list ==
    /\ (/\ call.op = "_send_command"
        /\ call.arg.isList
        /\ Len(call.arg.cmds) >= 1
        /\ device # "None"
        /\ \A k \in 1..Len(received) : Rejected(received[k])) =>
           /\ sent = call.arg.cmds
           /\ Len(received) = Len(sent)
           /\ outcome = Return(received[Len(received)].text)
    /\ (/\ call.op = "_send_command"
        /\ call.arg.isList
        /\ call.arg.cmds = <<>>
        /\ device # "None") =>
           /\ sent = <<>>
           /\ outcome = Raise("UnboundLocalError")

\* two candidates were both rejected and the second response came back
C3_witness ==
    /\ call.op = "_send_command"
    /\ call.arg.isList
    /\ Len(call.arg.cmds) = 2
    /\ Len(sent) = 2
    /\ Rejected(received[1])
    /\ Rejected(received[2])
    /\ outcome = Return(InvalidText)

\* C4: if the transport raises a socket-level error or an unexpected end of
\* stream while _send_command sends a command on an established session (a
\* single command or any candidate of a list), the caller observes the
\* 'connection closed' error and no other failure.
C4_connection_closed ==
    (/\ call.op = "_send_command"
     /\ session = "established"
     /\ \E k \in 1..Len(received) : received[k].exc \in {"socket.error", "EOFError"}) =>
        /\ outcome.kind = "raise"
        /\ outcome.exc = "ConnectionClosedException"

\* C5: close() completes without raising in every driver state (never opened,
\* open() failed before a session handle was stored, closed already), and the
\* session is disconnected after it.
C5_close_is_safe ==
    call.op = "close" =>
        /\ outcome.kind = "return"
        /\ session # "established"

\* the show commands get_config(retrieve) selects, in the order it sends them
SelectedCommands(retrieve) ==
    (IF retrieve \in {"startup", "all"} THEN <<Cmd("show startup-config")>> ELSE <<>>)
        \o (IF retrieve \in {"running", "all"} THEN <<Cmd("show running-config")>> ELSE <<>>)

\* C6: for every selector in {startup, running, all}, only show commands of the
\* selected blobs are sent, and when the device answers them get_config
\* returns a bundle with exactly the keys startup, running and candidate, where
\* a selected blob is the raw response to its show command, an unselected blob
\* is the empty string and candidate is the empty string.
C6_config_bundle ==
    (call.op = "get_config" /\ call.arg \in {"startup", "running", "all"}) =>
        /\ Len(sent) <= Len(SelectedCommands(call.arg))
        /\ sent = SubSeq(SelectedCommands(call.arg), 1, Len(sent))
        /\ (device # "None" /\ \A k \in 1..Len(received) : received[k].exc = "") =>
               /\ sent = SelectedCommands(call.arg)
               /\ outcome.kind = "return"
               /\ DOMAIN outcome.value = {"startup", "running", "candidate"}
               /\ outcome.value.startup =
                      IF call.arg \in {"startup", "all"}
                      THEN received[1].text ELSE EmptyText
               /\ outcome.value.running =
                      IF call.arg \in {"running", "all"}
                      THEN received[Len(received)].text ELSE EmptyText
               /\ outcome.value.candidate = EmptyText

\* get_config('running') has returned the running configuration the device
\* printed, with empty startup and candidate texts, after one command
C6_witness ==
    /\ call.op = "get_config"
    /\ call.arg = "running"
    /\ sent = <<Cmd("show running-config")>>
    /\ outcome = Return([startup |-> EmptyText,
                         running |-> RunningConfigText,
                         candidate |-> EmptyText])

\* C7: on a driver opened with the telnet transport, is_alive() sends the
\* no-op control sequence and returns {'is_alive': True} when the write
\* succeeds or fails with UnicodeDecodeError, and {'is_alive': False} when it
\* fails with AttributeError; in all three cases it returns rather than raises.
C7_telnet_is_alive ==
    (/\ call.op = "is_alive"
     /\ transport = "telnet"
     /\ device = "session"
     /\ session = "established") =>
        /\ sent = <<Cmd("IAC NOP")>>
        /\ Len(received) = 1
        /\ received[1].exc \in {"", "UnicodeDecodeError", "AttributeError"} =>
               /\ outcome.kind = "return"
               /\ outcome.value =
                      [is_alive |-> received[1].exc \in {"", "UnicodeDecodeError"}]

\* C8: get_lldp_neighbor_detail with a specific interface sends the one detail
\* command for that interface and returns a single record with a non-empty
\* remote_chassis_id, remote_system_name being the empty string when the
\* response has none; with no interface it runs the summary call first and
\* returns one detail record per local interface of the summary.
C8_lldp_neighbor_detail ==
    (/\ call.op = "get_lldp_neighbor_detail"
     /\ device = "session"
     /\ session = "established"
     /\ \A k \in 1..Len(received) : Accepted(received[k])) =>
        IF call.arg # <<>>
        THEN /\ sent = <<CmdArg("show lldp remote-device detail %s", call.arg)>>
             /\ Len(received) = 1
             /\ re_search_rest(received[1].text,
                    <<"C", "h", "a", "s", "s", "i", "s", " ", "I", "D", ":", " ">>).found =>
                    /\ outcome.kind = "return"
                    /\ outcome.value.remote_chassis_id # <<>>
                    /\ outcome.value.remote_system_name =
                           re_search_rest(received[1].text,
                               <<"S", "y", "s", "t", "e", "m", " ", "N", "a", "m", "e", ":", " ">>).group
        ELSE /\ Len(sent) >= 1
             /\ sent[1] = Cmd("show lldp remote-device all")
             /\ LET neighs == get_lldp_neighbors_result(device, <<received[1]>>) IN
                (/\ neighs.outcome.kind = "return"
                 /\ \A k \in 2..Len(received) :
                        re_search_rest(received[k].text,
                            <<"C", "h", "a", "s", "s", "i", "s", " ", "I", "D", ":", " ">>).found) =>
                    /\ outcome.kind = "return"
                    /\ Len(outcome.value) = Len(neighs.outcome.value)

\* C9: the driver retains nothing between calls but the open session.  Every
\* fact-retrieval call (get_config, get_environment, get_mac_address_table,
\* get_arp_table, get_interfaces, get_lldp_neighbors, get_ntp_peers) leaves
\* every driver field and the session as they were, and once it has ended
\* nothing of it is left: the driver awaits the next call in the very state in
\* which it awaited this one.  So what a retrieval sends and returns rests on
\* the session and the answers to its own commands, and is the same whether
\* or not other retrievals ran before it.
C9_no_state_between_calls ==
    [][/\ call'.op \in Retrievals =>
              /\ call.op = "idle"
              /\ driver' = driver
       /\ call.op \in Retrievals =>
              /\ call'.op = "idle"
              /\ driver' = driver
       /\ call.op = "idle" =>
              /\ call.arg = <<>>
              /\ sent = <<>>
              /\ received = <<>>
              /\ outcome = Return("None")]_vars

\* get_mac_address_table has returned entries on a telnet driver built with a
\* port option, on which an earlier retrieval had ended: the fields are still
\* those of the construction
C9_witness ==
    /\ retrieved
    /\ call.op = "get_mac_address_table"
    /\ transport = "telnet"
    /\ port = 2222
    /\ inline_transfer
    /\ ~config_replace
    /\ device = "session"
    /\ outcome.kind = "return"
    /\ Len(outcome.value) >= 1

\* C10 as stated: for every ARP data row, get_arp_table reports age -1.0 when
\* the age field is 'n/a' and otherwise hours*3600 + minutes*60 + seconds from
\* the h/m/s components of the age field, however the field is spaced; a row
\* whose age field is '2h30m15s' yields 9015.0.
C10_age_field ==
    (/\ call.op = "get_arp_table"
     /\ Len(received) = 1
     /\ received[1].exc = ""
     /\ DelimiterLines(received[1].text) # {}) =>
        LET rows == non_empty_lines(re_split_delimiter(received[1].text, 1))
            age_field(f) == IF Len(f) = 5 THEN f[5]
                            ELSE IF Len(f) = 6 THEN f[5] \o f[6]
                            ELSE f[5] \o f[6] \o f[7]
            at(t, c) == {i \in 1..Len(t) : t[i] = c}
            h_end(t) == Min(at(t, "h"))
            m_end(t) == Min(at(t, "m"))
            hms(t) == /\ at(t, "h") # {}
                      /\ at(t, "m") # {}
                      /\ h_end(t) < m_end(t)
                      /\ t[Len(t)] = "s"
                      /\ IsDigits(SubSeq(t, 1, h_end(t) - 1))
                      /\ IsDigits(SubSeq(t, h_end(t) + 1, m_end(t) - 1))
                      /\ IsDigits(SubSeq(t, m_end(t) + 1, Len(t) - 1))
            seconds(t) == 3600 * DigitsValue(SubSeq(t, 1, h_end(t) - 1))
                          + 60 * DigitsValue(SubSeq(t, h_end(t) + 1, m_end(t) - 1))
                          + DigitsValue(SubSeq(t, m_end(t) + 1, Len(t) - 1))
            is_data_row(f) == /\ Len(f) \in 5..7
                              /\ napalm_mac(f[2]).kind = "return"
                              /\ f[5] = <<"n", "/", "a">> \/ hms(age_field(f))
        IN  (\A k \in 1..Len(rows) : is_data_row(split(rows[k]))) =>
                /\ outcome.kind = "return"
                /\ Len(outcome.value) = Len(rows)
                /\ \A k \in 1..Len(rows) :
                       outcome.value[k].age =
                           IF split(rows[k])[5] = <<"n", "/", "a">> THEN Float(-1)
                           ELSE Float(seconds(age_field(split(rows[k]))))

\* C10, amended: get_arp_table reports age -1.0 for a row whose fifth column is
\* 'n/a', and for any other row it reports hours*3600 + minutes*60 + seconds
\* where hours, minutes and seconds are the fifth, sixth and seventh
\* whitespace-separated columns of the row, each without its last character
\* ('2h 30m 15s' yields 9015.0); when the age of a row is written in fewer
\* than three columns, as in '2h30m15s' or '1h 5m', the call raises and
\* reports no entry.
C10_age_columns ==
    (/\ call.op = "get_arp_table"
     /\ Len(received) = 1
     /\ received[1].exc = ""
     /\ DelimiterLines(received[1].text) # {}) =>
        LET rows == non_empty_lines(re_split_delimiter(received[1].text, 1))
            three_columns(f) == /\ Len(f) = 7
                                /\ IsDigits(DropLast(f[5]))
                                /\ IsDigits(DropLast(f[6]))
                                /\ IsDigits(DropLast(f[7]))
            is_data_row(f) == /\ Len(f) \in 5..7
                              /\ napalm_mac(f[2]).kind = "return"
                              /\ f[5] = <<"n", "/", "a">> \/ three_columns(f)
            too_few_columns(f) == \/ Len(f) < 5
                                  \/ f[5] # <<"n", "/", "a">> /\ Len(f) < 7
        IN  /\ (\A k \in 1..Len(rows) : is_data_row(split(rows[k]))) =>
                   /\ outcome.kind = "return"
                   /\ Len(outcome.value) = Len(rows)
                   /\ \A k \in 1..Len(rows) :
                          LET f == split(rows[k]) IN
                          outcome.value[k].age =
                              IF f[5] = <<"n", "/", "a">> THEN Float(-1)
                              ELSE Float(3600 * DigitsValue(DropLast(f[5]))
                                         + 60 * DigitsValue(DropLast(f[6]))
                                         + DigitsValue(DropLast(f[7])))
            /\ (\E k \in 1..Len(rows) : too_few_columns(split(rows[k]))) =>
                   outcome.kind = "raise"

\* a table of an 'n/a' row and a '2h 30m 15s' row came back with the ages -1.0
\* and 9015.0
C10_witness ==
    /\ call.op = "get_arp_table"
    /\ outcome.kind = "return"
    /\ Len(outcome.value) = 2
    /\ outcome.value[1].age = Float(-1)
    /\ outcome.value[2].age = Float(9015)
    /\ Len(split(received[1].text[5])) = 7

\* C11 as stated: get_environment scans every line of the CPU command output
\* for the 'alloc' and 'free' lines, wherever they stand relative to the
\* 'Total CPU Utilization' line, and returns used_ram equal to the alloc value
\* and available_ram equal to alloc + free, with the 'invalid' placeholder
\* entries for temperature, power and fans.
C11_every_line_scanned ==
    (/\ call.op = "get_environment"
     /\ device # "None"
     /\ \A k \in 1..Len(received) : received[k].exc = "") =>
        LET text == splitlines(received[1].text)
            has(k, word) == Contains(text[k], word)
            total == <<"T", "o", "t", "a", "l", " ", "C", "P", "U", " ", "U", "t", "i", "l", "i", "z", "a", "t", "i", "o", "n">>
            totals == {k \in DOMAIN text : has(k, total)}
            allocs == {k \in DOMAIN text \ totals : has(k, <<"a", "l", "l", "o", "c">>)}
            frees == {k \in DOMAIN text \ totals : has(k, <<"f", "r", "e", "e">>)}
            last(S) == CHOOSE k \in S : \A j \in S : j <= k
            readable ==
                /\ allocs # {}
                /\ frees # {}
                /\ \A k \in allocs \cup frees : second_field_int(text[k]).kind = "return"
                /\ \A k \in totals :
                       /\ Len(split(text[k])) >= 5
                       /\ float(DropLast(split(text[k])[5])).kind = "return"
        IN  readable =>
                /\ outcome.kind = "return"
                /\ outcome.value.memory.used_ram =
                       second_field_int(text[last(allocs)]).value
                /\ outcome.value.memory.available_ram =
                       second_field_int(text[last(allocs)]).value
                           + second_field_int(text[last(frees)]).value
                /\ outcome.value.temperature =
                       [invalid |-> [is_alert |-> FALSE, is_critical |-> FALSE,
                                     temperature |-> Float(-1)]]
                /\ outcome.value.power =
                       [invalid |-> [status |-> TRUE, output |-> Float(-1),
                                     capacity |-> Float(-1)]]
                /\ outcome.value.fans = [invalid |-> [status |-> TRUE]]

\* C11, amended: get_environment scans the lines of the CPU command output
\* that stand before the first 'Total CPU Utilization' line (all of them when
\* there is none).  When an 'alloc' line and a 'free' line stand among these,
\* it returns used_ram equal to the alloc value and available_ram equal to
\* alloc + free (alloc=1000, free=500 gives 1000 and 1500), with the 'invalid'
\* placeholder entries for temperature, power and fans; when one of the two
\* stands only after the 'Total CPU Utilization' line, or nowhere, the call
\* raises and returns nothing.
C11_lines_before_total ==
    (/\ call.op = "get_environment"
     /\ device # "None"
     /\ \A k \in 1..Len(received) : received[k].exc = "") =>
        LET text == splitlines(received[1].text)
            has(k, word) == Contains(text[k], word)
            total == <<"T", "o", "t", "a", "l", " ", "C", "P", "U", " ", "U", "t", "i", "l", "i", "z", "a", "t", "i", "o", "n">>
            totals == {k \in DOMAIN text : has(k, total)}
            scanned == {k \in DOMAIN text : \A t \in totals : k < t}
            allocs == {k \in scanned : has(k, <<"a", "l", "l", "o", "c">>)}
            frees == {k \in scanned : has(k, <<"f", "r", "e", "e">>)}
            last(S) == CHOOSE k \in S : \A j \in S : j <= k
            first(S) == CHOOSE k \in S : \A j \in S : k <= j
            readable ==
                /\ \A k \in allocs \cup frees : second_field_int(text[k]).kind = "return"
                /\ totals # {} =>
                       /\ Len(split(text[first(totals)])) >= 5
                       /\ float(DropLast(split(text[first(totals)])[5])).kind = "return"
        IN  IF allocs # {} /\ frees # {} /\ readable
            THEN /\ outcome.kind = "return"
                 /\ sent = <<Cmd("show proc cpu"), Cmd("show system temperature")>>
                 /\ outcome.value.memory.used_ram =
                        second_field_int(text[last(allocs)]).value
                 /\ outcome.value.memory.available_ram =
                        second_field_int(text[last(allocs)]).value
                            + second_field_int(text[last(frees)]).value
                 /\ outcome.value.temperature =
                        [invalid |-> [is_alert |-> FALSE, is_critical |-> FALSE,
                                      temperature |-> Float(-1)]]
                 /\ outcome.value.power =
                        [invalid |-> [status |-> TRUE, output |-> Float(-1),
                                      capacity |-> Float(-1)]]
                 /\ outcome.value.fans = [invalid |-> [status |-> TRUE]]
            ELSE /\ outcome.kind = "raise"
                 /\ sent = <<Cmd("show proc cpu")>>

\* the device printed free 500 and alloc 1000 before its 'Total CPU
\* Utilization' line and the call returned used_ram 1000, available_ram 1500
C11_witness ==
    /\ call.op = "get_environment"
    /\ outcome.kind = "return"
    /\ received[1].text = MemoryLines \o TotalLines
    /\ outcome.value.memory = [used_ram |-> 1000, available_ram |-> 1500]

\* the type tag reads as the lower-case word when case is set aside: letter by
\* letter it is the word's letter or that letter's capital
SameIgnoringCase(type_tag, word) ==
    /\ Len(type_tag) = Len(word)
    /\ \A k \in DOMAIN word :
           \/ type_tag[k] = word[k]
           \/ \E u \in DOMAIN AsciiLowerCase :
                  word[k] = AsciiLowerCase[u] /\ type_tag[k] = AsciiUpperCase[u]

\* C12 as stated: for every MAC-table row, the entry is static exactly when
\* its type tag equals 'management' or 'static' compared case-insensitively,
\* is active only when its type tag is exactly 'dynamic', and is neither for
\* every other type tag; no entry is both static and active, and moves and
\* last_move are always -1 and -1.0.
C12_active_exactly_dynamic ==
    (call.op = "get_mac_address_table" /\ outcome.kind = "return") =>
        LET rows == non_empty_lines(re_split_total(
                        re_split_delimiter(received[1].text, 1)))
            tag(k) == split(rows[k])[3]
            is_static_tag(k) ==
                \/ SameIgnoringCase(tag(k), <<"m", "a", "n", "a", "g", "e", "m", "e", "n", "t">>)
                \/ SameIgnoringCase(tag(k), <<"s", "t", "a", "t", "i", "c">>)
        IN  /\ Len(outcome.value) = Len(rows)
            /\ \A k \in 1..Len(rows) :
                   LET e == outcome.value[k] IN
                   /\ e.static <=> is_static_tag(k)
                   /\ e.active => tag(k) = <<"d", "y", "n", "a", "m", "i", "c">>
                   /\ (~is_static_tag(k)
                       /\ tag(k) # <<"d", "y", "n", "a", "m", "i", "c">>) =>
                          ~e.static /\ ~e.active
                   /\ ~(e.static /\ e.active)
                   /\ e.moves = -1
                   /\ e.last_move = Float(-1)

\* C12, amended: for every MAC-table row, the entry is static exactly when its
\* type tag equals 'management' or 'static' compared case-insensitively, is
\* active exactly when its type tag equals 'dynamic' compared
\* case-insensitively (so 'Dynamic', as the device prints it, is active), and
\* is neither for every other type tag; no entry is both static and active,
\* and moves and last_move are always -1 and -1.0.
C12_active_any_case_dynamic ==
    (call.op = "get_mac_address_table" /\ outcome.kind = "return") =>
        LET rows == non_empty_lines(re_split_total(
                        re_split_delimiter(received[1].text, 1)))
            tag(k) == split(rows[k])[3]
            is_static_tag(k) ==
                \/ SameIgnoringCase(tag(k), <<"m", "a", "n", "a", "g", "e", "m", "e", "n", "t">>)
                \/ SameIgnoringCase(tag(k), <<"s", "t", "a", "t", "i", "c">>)
        IN  /\ Len(outcome.value) = Len(rows)
            /\ \A k \in 1..Len(rows) :
                   LET e == outcome.value[k] IN
                   /\ e.static <=> is_static_tag(k)
                   /\ e.active <=> SameIgnoringCase(tag(k), <<"d", "y", "n", "a", "m", "i", "c">>)
                   /\ ~(e.static /\ e.active)
                   /\ e.moves = -1
                   /\ e.last_move = Float(-1)

\* a table of a 'Dynamic' row and a 'Management' row came back with an active
\* entry that is not static and a static entry that is not active
C12_witness ==
    /\ call.op = "get_mac_address_table"
    /\ outcome.kind = "return"
    /\ Len(outcome.value) = 2
    /\ LET rows == non_empty_lines(re_split_total(
                       re_split_delimiter(received[1].text, 1)))
       IN  /\ split(rows[1])[3] = <<"D", "y", "n", "a", "m", "i", "c">>
           /\ split(rows[2])[3] = <<"M", "a", "n", "a", "g", "e", "m", "e", "n", "t">>
    /\ outcome.value[1].active /\ ~outcome.value[1].static
    /\ outcome.value[2].static /\ ~outcome.value[2].active

====
